---- MODULE Spec2Model ----
(***************************************************************************)
(* Model of tauri-plugin-configurate: the atomic file writer               *)
(* (storage.rs, write_file_safely), the storage backends, the dotpath      *)
(* engine, the keyring adapter and the five commands of commands.rs.       *)
(*                                                                         *)
(* A byte string is a sequence of chunks; a file that holds a strict       *)
(* prefix of a byte string is a partially written file.  The temporary     *)
(* name `.{file_name}.{nanos}-{random}.tmp` is modelled as one name per    *)
(* (writer, call): two calls never draw the same name.                     *)
(***************************************************************************)
EXTENDS Integers, Sequences, FiniteSets, TLC

\* ------------------------------------------------------------------ bounds
NumWriters == 2      \* concurrent callers of write_file_safely
MaxCalls == 2        \* calls of write_file_safely in one run, all callers together
MaxOps == 3          \* commands invoked in one run
MaxFaults == 1       \* failures of the file system or the keyring in one run of commands
MaxWrites == 2       \* writes of a storage backend in one run of the codecs
MaxPathLen == 5      \* characters of a dotpath handed to set or nullify
MaxComponentLen == 4 \* characters of a string handed to one of the validators
MaxNameLen == 3      \* characters of name, dirName and path handed to resolve_path
MaxUserLen == 2      \* characters of an account and of an id of the secret store
MaxStores == 2       \* calls of set and delete of the secret store in one run

\* ------------------------------------------------------------- file system
NoFile == [exists |-> FALSE]                   \* no file under that name
File(b) == [exists |-> TRUE, bytes |-> b]      \* a file holding the chunks b
\* The destination path of the writes: its directory, then its file name.
Dest == <<"dir", <<"dest">>>>
Writers == 1..NumWriters

\* The in-place variant of TmpPath: the bytes go straight to the destination.
TmpPathInPlace(w, k) == Dest

\* storage.rs:35  path.with_file_name(tmp_name): the last component replaced
WithFileName(path, name) == SubSeq(path, 1, Len(path) - 1) \o <<name>>

\* storage.rs:34-35  tmp_name / tmp_path: a sibling of the destination
TmpPath(w, k) == WithFileName(Dest, <<"tmp", w, k>>)

FileNames == {Dest} \cup {TmpPath(w, k) : w \in Writers, k \in 1..(MaxCalls + MaxOps)}

Chunk(src, part) == [of |-> src, part |-> part]
Bytes(src) == <<Chunk(src, 1), Chunk(src, 2)>>   \* a complete byte string
OldBytes == Bytes("old")           \* content of a destination that pre-exists
ByteStrings == {Bytes("x"), Bytes("y")}          \* arguments `bytes`

VARIABLES
  files,      \* file name -> File(content) or NoFile
  initial,    \* the destination before any call
  called,     \* the byte strings passed to write_file_safely so far
  wr,         \* per caller: the position inside write_file_safely and its locals
  keyring,    \* the OS keyring: (service, user) -> Entry(password) or NoEntry
  conf,       \* the caller's configuration of this file: format, keyring schema
  task,       \* the command in progress: its payload, position and locals
  ghost       \* what earlier commands of the run did and returned (history)

wvars == <<files, initial, called, wr>>
cvars == <<keyring, conf, task, ghost>>
vars == <<files, initial, called, wr, keyring, conf, task, ghost>>

IdleWriter ==
  [pc |-> "idle", bytes |-> <<>>, tmp |-> Dest, calls |-> 0, prior |-> NoFile,
   ret |-> "none", synced |-> FALSE, renames |-> 0, removes |-> 0, faults |-> 0]

RECURSIVE SumCalls(_)
SumCalls(S) ==
  IF S = {} THEN 0
  ELSE LET v == CHOOSE x \in S : TRUE IN wr[v].calls + SumCalls(S \ {v})

\* Entering write_file_safely(path, bytes): storage.rs:15
WEnter(w, bytes) ==
  /\ wr' = [wr EXCEPT ![w] =
       [pc |-> "mkdir", bytes |-> bytes, calls |-> wr[w].calls + 1,
        tmp |-> TmpPath(w, wr[w].calls + 1), prior |-> files[Dest],
        ret |-> "none", synced |-> FALSE, renames |-> 0, removes |-> 0,
        faults |-> 0]]
  /\ called' = called \cup {bytes}

WGoto(w, label) == wr' = [wr EXCEPT ![w].pc = label]

WReturn(w, result) == wr' = [wr EXCEPT ![w].pc = "ret", ![w].ret = result]

\* A call of the standard library fails and its error is returned.
WFail(w, result) ==
  wr' = [wr EXCEPT ![w].pc = "ret", ![w].ret = result, ![w].faults = @ + 1]

\* A call from a test or from a backend: storage.rs:15
WCall(w) ==
  /\ wr[w].pc \in {"idle", "ret"}
  /\ SumCalls(Writers) < MaxCalls
  /\ \E bytes \in ByteStrings : WEnter(w, bytes)
  /\ UNCHANGED <<files, initial>>

\* storage.rs:18-29  create_dir_all, file_name, SystemTime: each may fail
WPrepare(w) ==
  /\ wr[w].pc = "mkdir"
  /\ \/ WGoto(w, "create")
     \/ WFail(w, "Io")              \* create_dir_all failed
     \/ WFail(w, "Storage")         \* system time error
  /\ UNCHANGED <<files, initial, called>>

\* storage.rs:38  File::create(&tmp_path): creates or truncates
WCreate(w) ==
  /\ wr[w].pc = "create"
  /\ \/ /\ files' = [files EXCEPT ![wr[w].tmp] = File(<<>>)]
        /\ WGoto(w, "write")
     \/ /\ WFail(w, "Io")
        /\ UNCHANGED files
  /\ UNCHANGED <<initial, called>>

\* storage.rs:39  tmp.write_all(bytes): chunk after chunk, may fail midway
WWrite(w) ==
  /\ wr[w].pc = "write"
  /\ LET have == files[wr[w].tmp]
         n == IF have.exists THEN Len(have.bytes) ELSE 0
     IN IF n < Len(wr[w].bytes)
        THEN \/ /\ files' = [files EXCEPT ![wr[w].tmp] =
                               File(SubSeq(wr[w].bytes, 1, n + 1))]
                /\ UNCHANGED wr
             \/ /\ WFail(w, "Io")
                /\ UNCHANGED files
        ELSE /\ WGoto(w, "sync")
             /\ UNCHANGED files
  /\ UNCHANGED <<initial, called>>

\* The variant of WSync that goes on to the rename without the sync.
WSyncSkipped(w) ==
  /\ wr[w].pc = "sync"
  /\ \/ wr' = [wr EXCEPT ![w].pc = "rename"]
     \/ WFail(w, "Io")
  /\ UNCHANGED <<files, initial, called>>

\* storage.rs:40  tmp.sync_all()
WSync(w) ==
  /\ wr[w].pc = "sync"
  /\ \/ wr' = [wr EXCEPT ![w].pc = "rename", ![w].synced = TRUE]
     \/ WFail(w, "Io")
  /\ UNCHANGED <<files, initial, called>>

\* std::fs::rename(from, to): atomic replace of `to` by the file `from`
Renamed(from, to) == [files EXCEPT ![to] = files[from], ![from] = NoFile]

\* storage.rs:43  first rename; on failure the error is kept in rename_err
WRename(w) ==
  /\ wr[w].pc = "rename"
  /\ \/ /\ files[wr[w].tmp].exists
        /\ files' = Renamed(wr[w].tmp, Dest)
        /\ wr' = [wr EXCEPT ![w].pc = "ret", ![w].ret = "Ok", ![w].renames = @ + 1]
     \/ /\ UNCHANGED files
        /\ wr' = [wr EXCEPT ![w].pc = "exists", ![w].renames = @ + 1,
                            ![w].faults = @ + 1]
  /\ UNCHANGED <<initial, called>>

\* storage.rs:49, 53-56  path.exists(); absent: return Err(rename_err)
WExists(w) ==
  /\ wr[w].pc = "exists"
  /\ IF files[Dest].exists
     THEN WGoto(w, "remove")
     ELSE WReturn(w, "Io")
  /\ UNCHANGED <<files, initial, called>>

\* The variant of WRemove that goes on to the second rename when the
\* deletion fails.
WRemoveRetrying(w) ==
  /\ wr[w].pc = "remove"
  /\ \/ /\ files[Dest].exists
        /\ files' = [files EXCEPT ![Dest] = NoFile]
        /\ wr' = [wr EXCEPT ![w].pc = "rename2", ![w].removes = @ + 1]
     \/ /\ UNCHANGED files
        /\ wr' = [wr EXCEPT ![w].pc = "rename2", ![w].removes = @ + 1,
                            ![w].faults = @ + 1]
  /\ UNCHANGED <<initial, called>>

\* storage.rs:50  std::fs::remove_file(path)?
WRemove(w) ==
  /\ wr[w].pc = "remove"
  /\ \/ /\ files[Dest].exists
        /\ files' = [files EXCEPT ![Dest] = NoFile]
        /\ wr' = [wr EXCEPT ![w].pc = "rename2", ![w].removes = @ + 1]
     \/ /\ UNCHANGED files
        /\ wr' = [wr EXCEPT ![w].pc = "ret", ![w].ret = "Io", ![w].removes = @ + 1,
                            ![w].faults = @ + 1]
  /\ UNCHANGED <<initial, called>>

\* The variant of WRename2 that removes the temporary file when the rename
\* fails.
WRename2Cleaning(w) ==
  /\ wr[w].pc = "rename2"
  /\ \/ /\ files[wr[w].tmp].exists
        /\ files' = Renamed(wr[w].tmp, Dest)
        /\ wr' = [wr EXCEPT ![w].pc = "ret", ![w].ret = "Ok", ![w].renames = @ + 1]
     \/ /\ files' = [files EXCEPT ![wr[w].tmp] = NoFile]
        /\ wr' = [wr EXCEPT ![w].pc = "ret", ![w].ret = "Io", ![w].renames = @ + 1,
                            ![w].faults = @ + 1]
  /\ UNCHANGED <<initial, called>>

\* storage.rs:52  second rename; on failure the temporary file is kept
WRename2(w) ==
  /\ wr[w].pc = "rename2"
  /\ \/ /\ files[wr[w].tmp].exists
        /\ files' = Renamed(wr[w].tmp, Dest)
        /\ wr' = [wr EXCEPT ![w].pc = "ret", ![w].ret = "Ok", ![w].renames = @ + 1]
     \/ /\ UNCHANGED files
        /\ wr' = [wr EXCEPT ![w].pc = "ret", ![w].ret = "Io", ![w].renames = @ + 1,
                            ![w].faults = @ + 1]
  /\ UNCHANGED <<initial, called>>

\* One step of write_file_safely after the call.
WriteStep(w) ==
  \/ WPrepare(w) \/ WCreate(w) \/ WWrite(w) \/ WSync(w)
  \/ WRename(w) \/ WExists(w) \/ WRemove(w) \/ WRename2(w)

\* ------------------------------------------------------ structured values
\* serde_json::Value.  A string is a sequence of one-character strings, so
\* that splitting, concatenation and parsing are computed, not assumed.
Null == [t |-> "null"]
Str(s) == [t |-> "str", s |-> s]
Num(s) == [t |-> "num", s |-> s]           \* s: the digits of the number
Bool(s) == [t |-> "bool", s |-> s]         \* s: true or false, as text
Obj(m) == [t |-> "obj", m |-> m]           \* m: key -> value
EmptyMap == <<>>                           \* serde_json::Map::new()

None == [some |-> FALSE]                   \* Option::None
Some(v) == [some |-> TRUE, v |-> v]        \* Option::Some(v)

\* The variant of Put that drops the other keys of the map.
PutAlone(m, k, v) == [x \in {k} |-> v]

\* Map::insert(k, v): adds the key or overwrites its value.
Put(m, k, v) == [x \in (DOMAIN m) \cup {k} |-> IF x = k THEN v ELSE m[x]]

\* ------------------------------------------------------------ dotpath.rs
\* path.split('.'): the segments between the dots, empty ones included.
RECURSIVE SplitAcc(_, _, _)
SplitAcc(s, sep, cur) ==
  IF s = <<>> THEN <<cur>>
  ELSE IF Head(s) = sep THEN <<cur>> \o SplitAcc(Tail(s), sep, <<>>)
  ELSE SplitAcc(Tail(s), sep, Append(cur, Head(s)))

Split(s, sep) == SplitAcc(s, sep, <<>>)

\* The variant of Walk that puts an empty mapping in the place of a node
\* that is not a mapping.
RECURSIVE WalkReplacing(_, _, _)
WalkReplacing(current, parts, new_val) ==
  LET m == IF current.t = "obj" THEN current.m ELSE EmptyMap
  IN IF Len(parts) = 1
     THEN [ok |-> TRUE, tree |-> Obj(Put(m, parts[1], new_val))]
     ELSE LET next == IF parts[1] \in DOMAIN m THEN m[parts[1]] ELSE Obj(EmptyMap)
              r == WalkReplacing(next, Tail(parts), new_val)
          IN [ok |-> r.ok, tree |-> Obj(Put(m, parts[1], r.tree))]

\* The variant of Walk that puts an empty mapping where it finds a node that
\* is not a mapping, and fails.
RECURSIVE WalkClobbering(_, _, _)
WalkClobbering(current, parts, new_val) ==
  IF current.t # "obj" THEN [ok |-> FALSE, tree |-> Obj(EmptyMap)]
  ELSE IF Len(parts) = 1
       THEN [ok |-> TRUE, tree |-> Obj(Put(current.m, parts[1], new_val))]
       ELSE LET next == IF parts[1] \in DOMAIN current.m
                        THEN current.m[parts[1]]
                        ELSE Obj(EmptyMap)
                r == WalkClobbering(next, Tail(parts), new_val)
            IN [ok |-> r.ok, tree |-> Obj(Put(current.m, parts[1], r.tree))]

\* dotpath.rs:23-52  the loop over the segments, from node `current`.  The
\* result carries the tree as the loop leaves it, also when it fails.
RECURSIVE Walk(_, _, _)
Walk(current, parts, new_val) ==
  IF current.t # "obj" THEN [ok |-> FALSE, tree |-> current]
  ELSE IF Len(parts) = 1
       THEN [ok |-> TRUE, tree |-> Obj(Put(current.m, parts[1], new_val))]
       ELSE LET next == IF parts[1] \in DOMAIN current.m
                        THEN current.m[parts[1]]
                        ELSE Obj(EmptyMap)
                r == Walk(next, Tail(parts), new_val)
            IN [ok |-> r.ok, tree |-> Obj(Put(current.m, parts[1], r.tree))]

\* dotpath.rs:8-57  set(root, path, new_val)
DotSet(root, path, new_val) ==
  IF path = <<>> THEN [ok |-> FALSE, tree |-> root]
  ELSE LET parts == Split(path, ".")
       IN IF \E k \in 1..Len(parts) : parts[k] = <<>>
          THEN [ok |-> FALSE, tree |-> root]
          ELSE Walk(root, parts, new_val)

\* The variant of Nullify that leaves the tree as it is.
NullifySkipped(root, path) == [ok |-> TRUE, tree |-> root]

\* dotpath.rs:61-63  nullify(root, path)
Nullify(root, path) == DotSet(root, path, Null)

\* ------------------------------------------------------- keyring_store.rs
NoEntry == [has |-> FALSE]                          \* keyring::Error::NoEntry
Entry(password) == [has |-> TRUE, password |-> password]

\* keyring_store.rs:14-16  build_user: "{account}/{id}"
BuildUser(opts, id) == opts.account \o <<"/">> \o id

\* keyring::Entry::new(&opts.service, &user): the address of a secret
EntryKey(opts, id) == <<opts.service, BuildUser(opts, id)>>

\* The variant of KeyringStoreSet that keeps an entry that is already there.
KeyringStoreSetIfAbsent(store, key, password) ==
  IF store[key].has THEN store ELSE [store EXCEPT ![key] = Entry(password)]

\* The variant of KeyringStoreSet that appends to the entry that is there.
KeyringStoreSetAppending(store, key, password) ==
  [store EXCEPT ![key] = IF @.has THEN Entry(@.password \o password)
                         ELSE Entry(password)]

\* keyring_store.rs:21-26  set: set_password overwrites the entry
KeyringStoreSet(store, key, password) == [store EXCEPT ![key] = Entry(password)]

\* The variant of KeyringStoreGet that answers the text null for a missing entry.
KeyringStoreGetLenient(store, key) ==
  [ok |-> TRUE,
   v |-> IF store[key].has THEN store[key].password ELSE <<"n", "u", "l", "l">>]

\* keyring_store.rs:30-35  get: a missing entry is Error::Keyring
KeyringStoreGet(store, key) ==
  IF store[key].has THEN [ok |-> TRUE, v |-> store[key].password]
  ELSE [ok |-> FALSE, kind |-> "Keyring"]

\* keyring_store.rs:39-47  delete: NoEntry is mapped to Ok(())
KeyringStoreDelete(store, key) ==
  [ok |-> TRUE, store |-> [store EXCEPT ![key] = NoEntry]]

\* ---------------------------------------------------------------- storage
Digits == {"0", "1", "2", "3", "4", "5", "6", "7", "8", "9"}

\* serde_json::from_str(&secret) on a scalar text (commands.rs:187): the
\* literals, an integer without sign, or a quoted string without escapes.
\* Anything else is no JSON text.
JsonFromStr(s) ==
  IF s = <<"n", "u", "l", "l">> THEN Some(Null)
  ELSE IF s = <<"t", "r", "u", "e">> \/ s = <<"f", "a", "l", "s", "e">>
       THEN Some(Bool(s))
  ELSE IF /\ s # <<>>
          /\ \A k \in 1..Len(s) : s[k] \in Digits
          /\ (Len(s) = 1 \/ s[1] # "0")
       THEN Some(Num(s))
  ELSE IF /\ Len(s) >= 2
          /\ s[1] = "\"" /\ s[Len(s)] = "\""
          /\ \A k \in 2..(Len(s) - 1) : s[k] \notin {"\"", "\\"}
       THEN Some(Str(SubSeq(s, 2, Len(s) - 1)))
  ELSE None

\* The variant of backend_for that selects the plain binary backend whether
\* or not a key is given.
BackendForPlain(format, encryption_key) == [kind |-> format, key |-> None]

\* storage.rs:231-243  backend_for(format, encryption_key)
BackendFor(format, encryption_key) ==
  CASE format = "json" -> [kind |-> "json", key |-> None]
    [] format = "yaml" -> [kind |-> "yaml", key |-> None]
    [] format = "binary" ->
         IF encryption_key.some
         THEN [kind |-> "encrypted", key |-> encryption_key]
         ELSE [kind |-> "binary", key |-> None]

\* The bytes a backend writes for `value` (storage.rs:85-88, 109-115,
\* 139-144, 199-220): they determine the format, the value and, for the
\* encrypted backend, the key and the nonce of that write.
Encode(backend, value, nonce) ==
  Bytes([kind |-> backend.kind, key |-> backend.key,
         nonce |-> IF backend.kind = "encrypted" THEN nonce ELSE "none",
         val |-> value])

\* Backend read of the bytes of a file (storage.rs:79-83, 99-107, 130-137,
\* 175-197): a value when they are a complete encoding of this backend
\* (and key), else the backend's error.
Decode(backend, bytes) ==
  IF /\ Len(bytes) = 2
     /\ bytes = Bytes(bytes[1].of)
     /\ bytes[1].of.kind = backend.kind
     /\ bytes[1].of.key = backend.key
  THEN [ok |-> TRUE, v |-> bytes[1].of.val]
  ELSE [ok |-> FALSE, kind |-> IF backend.kind = "json" THEN "Json" ELSE "Storage"]

\* ------------------------------------------------------------ commands.rs
\* commands.rs:19-51  validate_path_component
ForbiddenChars == {"/", "\\", "NUL", ":", "*", "?", "\"", "<", ">", "|"}

\* The variant of validate_path_component without the check of the last
\* character.
ValidatePathComponentAnyEnd(component) ==
  IF component = <<>> THEN FALSE
  ELSE IF \E k \in 1..Len(component) : component[k] \in ForbiddenChars THEN FALSE
  ELSE IF \A k \in 1..Len(component) : component[k] = "." THEN FALSE
  ELSE TRUE

ValidatePathComponent(component) ==
  IF component = <<>> THEN FALSE
  ELSE IF \E k \in 1..Len(component) : component[k] \in ForbiddenChars THEN FALSE
  ELSE IF \A k \in 1..Len(component) : component[k] = "." THEN FALSE
  ELSE IF component[Len(component)] \in {" ", "."} THEN FALSE
  ELSE TRUE

Ok(v) == [ok |-> TRUE, v |-> v]
Err(kind) == [ok |-> FALSE, kind |-> kind, op |-> "-"]
\* Error::InvalidPayload("invalid '{op}' payload: ...")
ErrPair(op) == [ok |-> FALSE, kind |-> "InvalidPayload", op |-> op]
Unit == [t |-> "unit"]                     \* the value of Ok(())

\* commands.rs:116-160  resolve_path, with dir_name and path omitted: the
\* one valid name of the model resolves to Dest.
ResolvePath(name) ==
  IF ValidatePathComponent(name) THEN Ok(Dest) ELSE Err("InvalidPayload")

\* The variant of keyring_pair that takes descriptors without options for
\* no descriptors at all.
KeyringPairLenient(op, keyring_entries, keyring_options) ==
  CASE keyring_entries.some /\ keyring_options.some ->
         Ok(Some([entries |-> keyring_entries.v, opts |-> keyring_options.v]))
    [] ~keyring_entries.some /\ ~keyring_options.some -> Ok(None)
    [] keyring_entries.some /\ ~keyring_options.some -> Ok(None)
    [] ~keyring_entries.some /\ keyring_options.some -> ErrPair(op)

\* commands.rs:198-215  keyring_pair
KeyringPair(op, keyring_entries, keyring_options) ==
  CASE keyring_entries.some /\ keyring_options.some ->
         Ok(Some([entries |-> keyring_entries.v, opts |-> keyring_options.v]))
    [] ~keyring_entries.some /\ ~keyring_options.some -> Ok(None)
    [] keyring_entries.some /\ ~keyring_options.some -> ErrPair(op)
    [] ~keyring_entries.some /\ keyring_options.some -> ErrPair(op)

\* ----- the inputs of the model
K1 == <<"k", "1">>
K2 == <<"k", "2">>
Ids == {K1, K2}
AppOpts == [service |-> <<"a", "p", "p">>, account |-> <<"u">>]
OptsSet == {AppOpts}
KeyringKeys == {EntryKey(o, id) : o \in OptsSet, id \in Ids}

\* models.rs:13-22  KeyringEntry { id, dotpath, value }
KeyringEntry(id, dotpath, value) == [id |-> id, dotpath |-> dotpath, value |-> value]
D1 == KeyringEntry(K1, <<"a", ".", "b">>, <<"a", "b", "c">>)
D2 == KeyringEntry(K2, <<"a">>, <<"1", "2", "3">>)
D3 == KeyringEntry(K1, <<"c">>, <<"t", "r", "u", "e">>)
\* The descriptor lists of the model: none, one, nested dotpaths in both
\* orders, and one id used twice.
Batches == {<<>>, <<D1>>, <<D2>>, <<D1, D2>>, <<D2, D1>>, <<D1, D3>>}

Tree1 ==
  Obj((<<"a">> :> Obj(<<"b">> :> Str(<<"s">>))) @@ (<<"c">> :> Str(<<"k">>)))
Tree1Locked == Obj((<<"a">> :> Obj(<<"b">> :> Null)) @@ (<<"c">> :> Str(<<"k">>)))

FormatChoices ==
  { [format |-> "json", encryption_key |-> None],
    [format |-> "binary", encryption_key |-> Some(<<"p", "w">>)] }
Nonces == {"n1"}

\* The caller holds one configuration per file: its format and key, and the
\* keyring fields of its schema.  Every payload of a run is built from it.
JsonFormat == [format |-> "json", encryption_key |-> None]
Configurations ==
  [fmt : {JsonFormat}, schema : Batches]
  \cup [fmt : FormatChoices \ {JsonFormat}, schema : {b \in Batches : Len(b) = 0}]

\* models.rs:37-74  ConfiguratePayload
Payloads ==
  [name : {<<"a", "p", "p">>}, fmt : {conf.fmt},
   data : {None, Some(Tree1)},
   keyring_entries : {None, Some(conf.schema)},
   keyring_options : {None} \cup {Some(o) : o \in OptsSet},
   with_unlock : BOOLEAN]
  \cup
  [name : {<<".", ".">>}, fmt : {conf.fmt}, data : {None},
   keyring_entries : {Some(conf.schema)}, keyring_options : {None},
   with_unlock : {FALSE}]

\* models.rs:78-87  UnlockPayload; data is a tree a load returned, or {}
UnlockPayloads ==
  [data : {Obj(EmptyMap), Tree1Locked}
            \cup (IF ghost.loaded.some THEN {ghost.loaded.v} ELSE {}),
   keyring_entries : {None, Some(conf.schema)},
   keyring_options : {None} \cup {Some(o) : o \in OptsSet}]

\* ----- the command in progress
IdleTask ==
  [op |-> "none", p |-> None, pc |-> "idle", backend |-> None, data |-> Null,
   unlocked |-> None, entries |-> <<>>, opts |-> None, i |-> 1, ret |-> None,
   log |-> <<>>, n |-> 0, faults |-> 0, faulted |-> FALSE]

NoHistory == [wrote |-> None, loaded |-> None, unl |-> None]

\* A command starts: its locals are fresh.
Fresh(op, p) ==
  [IdleTask EXCEPT !.op = op, !.p = p, !.n = task.n + 1, !.faults = task.faults]

CanStart == task.pc \in {"idle", "done"} /\ task.n < MaxOps

Finish(t, result) == [t EXCEPT !.pc = "done", !.ret = result]

\* An I/O call made by the command: call, keyring id (if any), and what the
\* callee answered: "ok", "noent" (NotFound, NoEntry) or "err" (any other).
Ev(call, id, res) == [call |-> call, id |-> id, res |-> res]
Logged(t, call, id, res) == [t EXCEPT !.log = Append(@, Ev(call, id, res))]
\* A failure of the environment inside the command.
Fault(t) == [t EXCEPT !.faulted = TRUE, !.faults = @ + 1]
CanFault == task.faults < MaxFaults

\* The history after a step that leaves the command in state t.
Record(t) ==
  IF t.pc # "done" THEN ghost
  ELSE CASE t.op \in {"create", "save"} ->
              [NoHistory EXCEPT !.wrote =
                 IF t.ret.ok THEN Some([paired |-> t.p.keyring_entries.some])
                 ELSE None]
         [] t.op = "delete" -> NoHistory
         [] t.op = "load" ->
              IF t.ret.ok /\ ~t.p.with_unlock
              THEN [ghost EXCEPT !.loaded = Some(t.ret.v)]
              ELSE ghost
         [] t.op = "unlock" ->
              [ghost EXCEPT !.unl =
                 Some([p |-> t.p, ret |-> t.ret, faulted |-> t.faulted])]

\* The locals of create/save after the payload is unpacked and the pair is
\* checked: commands.rs:225-237 (create), 277-288 (save).
WriteStart(op, p) ==
  LET t0 == [Fresh(op, p) EXCEPT
               !.backend = BackendFor(p.fmt.format, p.fmt.encryption_key)]
      path == ResolvePath(p.name)
      data == IF p.data.some THEN p.data.v ELSE Obj(EmptyMap)
      t1 == [t0 EXCEPT !.data = data,
                       !.unlocked = IF p.with_unlock THEN Some(data) ELSE None]
      pair == KeyringPair(op, p.keyring_entries, p.keyring_options)
  IN IF ~path.ok THEN Finish(t0, path)
     ELSE IF ~pair.ok THEN Finish(t1, pair)
     ELSE IF pair.v.some
          THEN [t1 EXCEPT !.entries = pair.v.v.entries, !.opts = Some(pair.v.v.opts),
                          !.pc = IF pair.v.v.entries = <<>> THEN "write" ELSE "kset"]
          ELSE [t1 EXCEPT !.pc = "write"]

\* The variant of CreateBegin that refuses a destination that exists.
CreateBeginExclusive ==
  /\ CanStart
  /\ \E p \in Payloads :
       task' = IF files[Dest].exists /\ ResolvePath(p.name).ok
               THEN Finish(Fresh("create", p), Err("Io"))
               ELSE WriteStart("create", p)
  /\ ghost' = NoHistory
  /\ UNCHANGED <<files, initial, called, wr, keyring, conf>>

\* commands.rs:221-237  create, up to its first I/O call
CreateBegin ==
  /\ CanStart
  /\ \E p \in Payloads : task' = WriteStart("create", p)
  /\ ghost' = NoHistory
  /\ UNCHANGED <<files, initial, called, wr, keyring, conf>>

\* commands.rs:273-288  save, up to its first I/O call
SaveBegin ==
  /\ CanStart
  /\ \E p \in Payloads : task' = WriteStart("save", p)
  /\ ghost' = NoHistory
  /\ UNCHANGED <<files, initial, called, wr, keyring, conf>>

\* The variant of KeyringWrite that goes on to the next descriptor when the
\* nullify fails.
KeyringWriteUnchecked ==
  /\ task.pc = "kset"
  /\ LET entry == task.entries[task.i]
         key == EntryKey(task.opts.v, entry.id)
     IN \/ /\ CanFault
           /\ keyring' = keyring
           /\ task' = Finish(Fault(Logged(task, "keyring.set", entry.id, "err")),
                             Err("Keyring"))
        \/ /\ keyring' = KeyringStoreSet(keyring, key, entry.value)
           /\ LET t1 == Logged(task, "keyring.set", entry.id, "ok")
                  r == Nullify(task.data, entry.dotpath)
                  t2 == [t1 EXCEPT !.data = r.tree, !.i = @ + 1]
              IN task' = IF task.i = Len(task.entries)
                         THEN [t2 EXCEPT !.pc = "write"]
                         ELSE t2
  /\ UNCHANGED <<files, initial, called, wr, conf>>
  /\ ghost' = Record(task')

\* commands.rs:169-173  one turn of the loop of apply_keyring_writes:
\* keyring_store::set (keyring_store.rs:21-26), then dotpath::nullify
KeyringWrite ==
  /\ task.pc = "kset"
  /\ LET entry == task.entries[task.i]
         key == EntryKey(task.opts.v, entry.id)
     IN \/ /\ CanFault
           /\ keyring' = keyring       \* Entry::new or set_password failed
           /\ task' = Finish(Fault(Logged(task, "keyring.set", entry.id, "err")),
                             Err("Keyring"))
        \/ /\ keyring' = KeyringStoreSet(keyring, key, entry.value)
           /\ LET t1 == Logged(task, "keyring.set", entry.id, "ok")
                  r == Nullify(task.data, entry.dotpath)
                  t2 == [t1 EXCEPT !.data = r.tree, !.i = @ + 1]
              IN task' = IF ~r.ok THEN Finish(t2, Err("Dotpath"))
                         ELSE IF task.i = Len(task.entries)
                              THEN [t2 EXCEPT !.pc = "write"]
                              ELSE t2
  /\ UNCHANGED <<files, initial, called, wr, conf>>
  /\ ghost' = Record(task')

\* commands.rs:241, 292  backend.write(&path, &data): the backend encodes
\* and calls write_file_safely
BackendWrite ==
  /\ task.pc = "write"
  /\ \E nonce \in Nonces :
       WEnter(1, Encode(task.backend, task.data, nonce))
  /\ task' = [Logged(task, "fs.write", <<>>, "ok") EXCEPT !.pc = "writing"]
  /\ UNCHANGED <<files, initial, keyring, ghost, conf>>

\* The variant of WriteResult that always returns the tree that was written.
WriteResultWritten(t, written) ==
  IF written = "Ok" THEN Finish(t, Ok(t.data)) ELSE Finish(t, Err(written))

\* The result of create/save once write_file_safely has returned:
\* commands.rs:241-243 (create), 292-294 (save).
WriteResult(t, written) ==
  IF written = "Ok"
  THEN Finish(t, Ok(IF t.unlocked.some THEN t.unlocked.v ELSE t.data))
  ELSE Finish(t, Err(written))

\* write_file_safely has returned: its locals are gone.
WLeave(w) == wr' = [wr EXCEPT ![w] = [IdleWriter EXCEPT !.calls = wr[w].calls]]

\* commands.rs:241-243  create: `?` on the write, then the returned value
CreateReturn ==
  /\ task.pc = "writing" /\ task.op = "create" /\ wr[1].pc = "ret"
  /\ task' = WriteResult(task, wr[1].ret)
  /\ WLeave(1)
  /\ UNCHANGED <<files, initial, called, keyring, conf>>
  /\ ghost' = Record(task')

\* commands.rs:292-294  save: `?` on the write, then the returned value
SaveReturn ==
  /\ task.pc = "writing" /\ task.op = "save" /\ wr[1].pc = "ret"
  /\ task' = WriteResult(task, wr[1].ret)
  /\ WLeave(1)
  /\ UNCHANGED <<files, initial, called, keyring, conf>>
  /\ ghost' = Record(task')

\* write_file_safely running inside create/save
BackendWriteStep ==
  /\ task.pc = "writing"
  /\ WriteStep(1)
  /\ task.faults + (wr'[1].faults - wr[1].faults) <= MaxFaults
  /\ task' = [task EXCEPT !.faults = @ + (wr'[1].faults - wr[1].faults),
                          !.faulted = @ \/ wr'[1].faults > wr[1].faults]
  /\ UNCHANGED <<keyring, ghost, conf>>

\* write_file_safely running inside create/save, where one more of its calls
\* can fail: a rename and its retry
BackendWriteRetrying ==
  /\ task.pc = "writing"
  /\ WriteStep(1)
  /\ task.faults + (wr'[1].faults - wr[1].faults) <= MaxFaults + 1
  /\ task' = [task EXCEPT !.faults = @ + (wr'[1].faults - wr[1].faults),
                          !.faulted = @ \/ wr'[1].faults > wr[1].faults]
  /\ UNCHANGED <<keyring, ghost, conf>>

\* commands.rs:250-255  load, up to its first I/O call
LoadBegin ==
  /\ CanStart
  /\ \E p \in Payloads :
       LET t0 == [Fresh("load", p) EXCEPT
                    !.backend = BackendFor(p.fmt.format, p.fmt.encryption_key)]
           path == ResolvePath(p.name)
       IN task' = IF ~path.ok THEN Finish(t0, path) ELSE [t0 EXCEPT !.pc = "read"]
  /\ UNCHANGED <<files, initial, called, wr, keyring, conf>>
  /\ ghost' = Record(task')

\* The variant of LoadUnlock that returns the tree as read from the file.
LoadUnlockSkipped(t, data) == Finish([t EXCEPT !.data = data], Ok(data))

\* commands.rs:259-265  load after the file is decoded into `data`
LoadUnlock(t, data) ==
  LET t1 == [t EXCEPT !.data = data]
      pair == KeyringPair("load", t.p.keyring_entries, t.p.keyring_options)
  IN IF ~t.p.with_unlock THEN Finish(t1, Ok(data))
     ELSE IF ~pair.ok THEN Finish(t1, pair)
     ELSE IF pair.v.some /\ pair.v.v.entries # <<>>
          THEN [t1 EXCEPT !.entries = pair.v.v.entries,
                          !.opts = Some(pair.v.v.opts), !.pc = "kget"]
          ELSE Finish(t1, Ok(data))

\* commands.rs:257  backend.read(&path): std::fs::read, then the decoding
LoadRead ==
  /\ task.pc = "read"
  /\ \/ /\ ~files[Dest].exists                       \* NotFound
        /\ task' = Finish(Logged(task, "fs.read", <<>>, "noent"), Err("Io"))
     \/ /\ files[Dest].exists /\ CanFault            \* another read error
        /\ task' = Finish(Fault(Logged(task, "fs.read", <<>>, "err")), Err("Io"))
     \/ /\ files[Dest].exists
        /\ LET t1 == Logged(task, "fs.read", <<>>, "ok")
               d == Decode(task.backend, files[Dest].bytes)
           IN task' = IF ~d.ok THEN Finish(t1, Err(d.kind))
                      ELSE LoadUnlock(t1, d.v)
  /\ UNCHANGED <<files, initial, called, wr, keyring, conf>>
  /\ ghost' = Record(task')

\* commands.rs:338-344  unlock, up to its first keyring call
UnlockBegin ==
  /\ CanStart
  /\ \E p \in UnlockPayloads :
       LET t0 == [Fresh("unlock", p) EXCEPT !.data = p.data]
           pair == KeyringPair("unlock", p.keyring_entries, p.keyring_options)
       IN task' = IF ~pair.ok THEN Finish(t0, pair)
                  ELSE IF pair.v.some /\ pair.v.v.entries # <<>>
                       THEN [t0 EXCEPT !.entries = pair.v.v.entries,
                                       !.opts = Some(pair.v.v.opts), !.pc = "kget"]
                       ELSE Finish(t0, Ok(p.data))
  /\ UNCHANGED <<files, initial, called, wr, keyring, conf>>
  /\ ghost' = Record(task')

\* The variant of KeyringRead that takes the secret out of the store.
KeyringReadConsuming ==
  /\ task.pc = "kget"
  /\ LET entry == task.entries[task.i]
         key == EntryKey(task.opts.v, entry.id)
         got == KeyringStoreGet(keyring, key)
     IN \/ /\ CanFault                               \* the facility failed
           /\ keyring' = keyring
           /\ task' = Finish(Fault(Logged(task, "keyring.get", entry.id, "err")),
                             Err("Keyring"))
        \/ /\ ~got.ok                               \* keyring::Error::NoEntry
           /\ keyring' = keyring
           /\ task' = Finish(Logged(task, "keyring.get", entry.id, "noent"),
                             Err(got.kind))
        \/ /\ got.ok
           /\ keyring' = KeyringStoreDelete(keyring, key).store
           /\ LET secret == got.v
                  parsed == JsonFromStr(secret)
                  val == IF parsed.some THEN parsed.v ELSE Str(secret)
                  r == DotSet(task.data, entry.dotpath, val)
                  t1 == [Logged(task, "keyring.get", entry.id, "ok") EXCEPT
                           !.data = r.tree, !.i = @ + 1]
              IN task' = IF ~r.ok THEN Finish(t1, Err("Dotpath"))
                         ELSE IF task.i = Len(task.entries)
                              THEN Finish(t1, Ok(r.tree))
                              ELSE t1
  /\ UNCHANGED <<files, initial, called, wr, conf>>
  /\ ghost' = Record(task')

\* commands.rs:184-189  one turn of the loop of apply_keyring_reads:
\* keyring_store::get (keyring_store.rs:30-35), the parse, dotpath::set
KeyringRead ==
  /\ task.pc = "kget"
  /\ LET entry == task.entries[task.i]
         key == EntryKey(task.opts.v, entry.id)
         got == KeyringStoreGet(keyring, key)
     IN \/ /\ CanFault                               \* the facility failed
           /\ task' = Finish(Fault(Logged(task, "keyring.get", entry.id, "err")),
                             Err("Keyring"))
        \/ /\ ~got.ok                               \* keyring::Error::NoEntry
           /\ task' = Finish(Logged(task, "keyring.get", entry.id, "noent"),
                             Err(got.kind))
        \/ /\ got.ok
           /\ LET secret == got.v
                  parsed == JsonFromStr(secret)
                  val == IF parsed.some THEN parsed.v ELSE Str(secret)
                  r == DotSet(task.data, entry.dotpath, val)
                  t1 == [Logged(task, "keyring.get", entry.id, "ok") EXCEPT
                           !.data = r.tree, !.i = @ + 1]
              IN task' = IF ~r.ok THEN Finish(t1, Err("Dotpath"))
                         ELSE IF task.i = Len(task.entries)
                              THEN Finish(t1, Ok(r.tree))
                              ELSE t1
  /\ UNCHANGED <<files, initial, called, wr, keyring, conf>>
  /\ ghost' = Record(task')

\* commands.rs:305-314  delete, up to its first I/O call
DeleteBegin ==
  /\ CanStart
  /\ \E p \in Payloads :
       LET t0 == Fresh("delete", p)
           path == ResolvePath(p.name)
           pair == KeyringPair("delete", p.keyring_entries, p.keyring_options)
       IN task' = IF ~path.ok THEN Finish(t0, path)
                  ELSE IF ~pair.ok THEN Finish(t0, pair)
                  ELSE IF pair.v.some /\ pair.v.v.entries # <<>>
                       THEN [t0 EXCEPT !.entries = pair.v.v.entries,
                                       !.opts = Some(pair.v.v.opts), !.pc = "kdel"]
                       ELSE [t0 EXCEPT !.pc = "rmfile"]
  /\ ghost' = NoHistory
  /\ UNCHANGED <<files, initial, called, wr, keyring, conf>>

\* The variant of KeyringDelete that returns the error of a failed delete.
KeyringDeleteAborts ==
  /\ task.pc = "kdel"
  /\ LET entry == task.entries[task.i]
         key == EntryKey(task.opts.v, entry.id)
         next == IF task.i = Len(task.entries) THEN "rmfile" ELSE "kdel"
     IN \/ /\ CanFault
           /\ keyring' = keyring
           /\ task' = Finish(Fault(Logged(task, "keyring.delete", entry.id, "err")),
                             Err("Keyring"))
        \/ /\ keyring' = KeyringStoreDelete(keyring, key).store
           /\ task' = [Logged(task, "keyring.delete", entry.id,
                                IF keyring[key].has THEN "ok" ELSE "noent")
                         EXCEPT !.i = @ + 1, !.pc = next]
  /\ UNCHANGED <<files, initial, called, wr, ghost, conf>>

\* commands.rs:315-317  one turn of the loop of delete:
\* `let _ = keyring_store::delete(..)` (keyring_store.rs:39-47)
KeyringDelete ==
  /\ task.pc = "kdel"
  /\ LET entry == task.entries[task.i]
         key == EntryKey(task.opts.v, entry.id)
         next == IF task.i = Len(task.entries) THEN "rmfile" ELSE "kdel"
     IN \/ /\ CanFault
           /\ keyring' = keyring                     \* the facility failed
           /\ task' = [Fault(Logged(task, "keyring.delete", entry.id, "err"))
                         EXCEPT !.i = @ + 1, !.pc = next]
        \/ /\ keyring' = KeyringStoreDelete(keyring, key).store
           /\ task' = [Logged(task, "keyring.delete", entry.id,
                                IF keyring[key].has THEN "ok" ELSE "noent")
                         EXCEPT !.i = @ + 1, !.pc = next]
  /\ UNCHANGED <<files, initial, called, wr, ghost, conf>>

\* The variant of RemoveFile that returns the NotFound error as well.
RemoveFileStrict ==
  /\ task.pc = "rmfile"
  /\ \/ /\ files[Dest].exists
        /\ files' = [files EXCEPT ![Dest] = NoFile]
        /\ task' = Finish(Logged(task, "fs.remove", <<>>, "ok"), Ok(Unit))
     \/ /\ ~files[Dest].exists
        /\ UNCHANGED files
        /\ task' = Finish(Logged(task, "fs.remove", <<>>, "noent"), Err("Io"))
     \/ /\ CanFault
        /\ UNCHANGED files
        /\ task' = Finish(Fault(Logged(task, "fs.remove", <<>>, "err")), Err("Io"))
  /\ UNCHANGED <<initial, called, wr, keyring, ghost, conf>>

\* commands.rs:321-327  remove_file; NotFound is success
RemoveFile ==
  /\ task.pc = "rmfile"
  /\ \/ /\ files[Dest].exists
        /\ files' = [files EXCEPT ![Dest] = NoFile]
        /\ task' = Finish(Logged(task, "fs.remove", <<>>, "ok"), Ok(Unit))
     \/ /\ ~files[Dest].exists                       \* ErrorKind::NotFound
        /\ UNCHANGED files
        /\ task' = Finish(Logged(task, "fs.remove", <<>>, "noent"), Ok(Unit))
     \/ /\ CanFault
        /\ UNCHANGED files                           \* any other error
        /\ task' = Finish(Fault(Logged(task, "fs.remove", <<>>, "err")), Err("Io"))
  /\ UNCHANGED <<initial, called, wr, keyring, ghost, conf>>

\* ------------------------------------------------- the five commands (Spec)
EmptyKeyring == [k \in KeyringKeys |-> NoEntry]

Init ==
  /\ \/ initial = NoFile /\ keyring = EmptyKeyring       \* nothing saved yet
     \* a file and two secrets left by an earlier run
     \/ /\ initial = File(Encode(BackendFor("json", None), Tree1Locked, "none"))
        /\ keyring = [EmptyKeyring EXCEPT
                        ![EntryKey(AppOpts, K1)] = Entry(<<"o", "l", "d">>),
                        ![EntryKey(AppOpts, K2)] = Entry(<<"7">>)]
  /\ files = [f \in FileNames |-> IF f = Dest THEN initial ELSE NoFile]
  /\ called = {}
  /\ wr = [w \in Writers |-> IdleWriter]
  /\ conf \in Configurations
  /\ task = IdleTask
  /\ ghost = NoHistory

Next ==
  \/ CreateBegin \/ SaveBegin \/ LoadBegin \/ DeleteBegin \/ UnlockBegin
  \/ KeyringWrite \/ BackendWrite \/ BackendWriteStep
  \/ CreateReturn \/ SaveReturn
  \/ LoadRead \/ KeyringRead \/ KeyringDelete \/ RemoveFile

Spec == Init /\ [][Next]_vars

\* ------------------------------- create and save with failing file writes
\* The two writing commands alone, where one more call of the file write can
\* fail than in Spec: a rename and its retry.
NextFail ==
  \/ CreateBegin \/ SaveBegin
  \/ KeyringWrite \/ BackendWrite \/ BackendWriteRetrying
  \/ CreateReturn \/ SaveReturn

SpecFail == Init /\ [][NextFail]_vars

\* ------------------------------------------ concurrent writers of one path
InitWrite ==
  /\ initial \in {NoFile, File(OldBytes)}
  /\ files = [f \in FileNames |-> IF f = Dest THEN initial ELSE NoFile]
  /\ called = {}
  /\ wr = [w \in Writers |-> IdleWriter]
  /\ keyring = EmptyKeyring
  /\ conf = [fmt |-> [format |-> "json", encryption_key |-> None], schema |-> <<>>]
  /\ task = IdleTask
  /\ ghost = NoHistory

NextWrite ==
  /\ \E w \in Writers : WCall(w) \/ WriteStep(w)
  /\ UNCHANGED cvars

SpecWrite == InitWrite /\ [][NextWrite]_vars

\* ------------------------------------------------------- claims: the writer
\* True when caller w is the only one that ever called write_file_safely.
OnlyCaller(w) == \A v \in Writers \ {w} : wr[v].calls = 0

\* C1: once a call of write_file_safely has returned, the destination holds
\* exactly `bytes` or still holds its complete prior content (a destination
\* that existed before the call still exists after a failed call).
C1_OldOrNewAfterReturn ==
  \A w \in Writers :
    (wr[w].pc = "ret" /\ OnlyCaller(w))
      => (files[Dest] = File(wr[w].bytes) \/ files[Dest] = wr[w].prior)

\* C2: in every state, also in the middle of one or several writes, the
\* destination is absent or holds the complete bytes of the initial content
\* or of some call; it never holds a partial byte string.
C2_DestNeverPartial ==
  files[Dest] \in {NoFile, initial} \cup {File(b) : b \in called}

\* A write is in progress with its temporary file half written, next to a
\* destination that holds the complete bytes another caller renamed there.
C2_Witness ==
  \E w \in Writers, v \in Writers :
    /\ w # v
    /\ wr[w].pc = "write" /\ files[wr[w].tmp] = File(<<wr[w].bytes[1]>>)
    /\ wr[v].ret = "Ok" /\ files[Dest] = File(wr[v].bytes)
    /\ initial.exists

\* ----------------------------------------------------- claims: the commands
\* The value found by descending from `tree` along the segments `parts`, or
\* None when a segment is missing or the node reached is not a mapping.
RECURSIVE Get(_, _)
Get(tree, parts) ==
  IF parts = <<>> THEN Some(tree)
  ELSE IF tree.t # "obj" THEN None
  ELSE IF parts[1] \notin DOMAIN tree.m THEN None
  ELSE Get(tree.m[parts[1]], Tail(parts))

Segments(d) == Split(d.dotpath, ".")

\* The command `op` has returned.
Returned(op) == task.pc = "done" /\ task.op = op

\* The payload carries descriptors and options together.
Paired(p) == p.keyring_entries.some /\ p.keyring_options.some
\* The payload carries descriptors without options, or the converse.
Mismatched(p) == p.keyring_entries.some # p.keyring_options.some

\* A create or a save has returned success with a batch of descriptors.
WroteWithBatch ==
  /\ Returned("create") \/ Returned("save")
  /\ task.ret.ok /\ Paired(task.p)

\* The value the file on disk decodes to, for the format of this run.
OnDisk ==
  IF files[Dest].exists
  THEN Decode(BackendFor(conf.fmt.format, conf.fmt.encryption_key), files[Dest].bytes)
  ELSE [ok |-> FALSE, kind |-> "Io"]

\* A load with withUnlock=false has returned a tree, and the last command
\* that wrote was a successful create/save with the descriptors of the run.
LoadedAfterBatch ==
  /\ Returned("load") /\ ~task.p.with_unlock /\ task.ret.ok
  /\ ghost.wrote = Some([paired |-> TRUE])

NullAtDotpath(tree, d) == Get(tree, Segments(d)) = Some(Null)

\* Null at the dotpath, or at a prefix of it that cuts the dotpath off.
NullOnDotpath(tree, d) ==
  \E k \in 1..Len(Segments(d)) : Get(tree, SubSeq(Segments(d), 1, k)) = Some(Null)

C4_PairCheckedBeforeIo ==
  (/\ task.pc = "done"
   /\ Mismatched(task.p)
   /\ task.op = "unlock" \/ ValidatePathComponent(task.p.name))
    => (task.ret = ErrPair(task.op) /\ task.log = <<>>)

\* C5 as stated: after a create or save that succeeded with the descriptors
\* and options of the run, an unlock with the same descriptors and options,
\* applied to the tree a load with withUnlock=false returned, succeeds when
\* the keyring works and yields, at the dotpath of every descriptor, the
\* value string of that descriptor.
C5_UnlockRestoresValues ==
  (/\ Returned("unlock") /\ ~task.faulted
   /\ ghost.wrote = Some([paired |-> TRUE])
   /\ ghost.loaded.some /\ task.p.data = ghost.loaded.v
   /\ task.p.keyring_entries = Some(conf.schema)
   /\ task.p.keyring_options.some)
    => /\ task.ret.ok
       /\ \A k \in 1..Len(conf.schema) :
            Get(task.ret.v, Segments(conf.schema[k])) = Some(Str(conf.schema[k].value))

\* Two results are the same tree, or errors of the same kind.
SameOutcome(r1, r2) ==
  IF r1.ok THEN r2.ok /\ r1.v = r2.v
  ELSE ~r2.ok /\ r1.kind = r2.kind

\* A load with withUnlock=true has returned, after an unlock of this run
\* that was given the same descriptors and options and the tree a load with
\* withUnlock=false returned; file and keyring did not change in between,
\* and neither command met a failure of the environment.
LoadAfterSameUnlock ==
  /\ Returned("load") /\ task.p.with_unlock /\ ~task.faulted
  /\ ghost.unl.some /\ ~ghost.unl.v.faulted
  /\ ghost.loaded.some /\ ghost.unl.v.p.data = ghost.loaded.v
  /\ ghost.unl.v.p.keyring_entries = task.p.keyring_entries
  /\ ghost.unl.v.p.keyring_options = task.p.keyring_options

\* C6: for the same file, the same keyring, the same descriptors and options,
\* load with withUnlock=true returns what unlock returns on the tree of a
\* load with withUnlock=false: the same tree, or an error of the same kind.
C6_LoadUnlockEquivalent ==
  LoadAfterSameUnlock => SameOutcome(task.ret, ghost.unl.v.ret)

\* Both paths have put the stored secret back at a.b.
C6_Witness ==
  /\ LoadAfterSameUnlock
  /\ Paired(task.p) /\ task.p.keyring_entries.v = <<D1>>
  /\ task.ret.ok
  /\ Get(task.ret.v, Segments(D1)) = Some(Str(<<"o", "l", "d">>))
  /\ Get(ghost.loaded.v, Segments(D1)) = Some(Null)

\* The descriptors a payload is processed with.
Batch(p) == IF Paired(p) THEN p.keyring_entries.v ELSE <<>>

\* The calls delete makes for a batch: one keyring delete per descriptor, in
\* list order, then the removal of the file.
DeleteCalls(entries) ==
  [k \in 1..(Len(entries) + 1) |->
     IF k <= Len(entries)
     THEN [call |-> "keyring.delete", id |-> entries[k].id]
     ELSE [call |-> "fs.remove", id |-> <<>>]]

Calls(log) == [k \in 1..Len(log) |-> [call |-> log[k].call, id |-> log[k].id]]
IsPrefix(a, b) == Len(a) <= Len(b) /\ SubSeq(b, 1, Len(a)) = a
Last(log) == log[Len(log)]

\* A delete that passed the validation of its payload.
DeleteRuns ==
  task.op = "delete" /\ ValidatePathComponent(task.p.name) /\ ~Mismatched(task.p)

\* C7: a delete makes a keyring delete for every descriptor of the batch, in
\* list order, whatever the earlier ones answered; when it has returned it
\* has made all of them and then the removal of the file, and its result is
\* never a keyring error.
C7_DeleteAttemptsAll ==
  DeleteRuns =>
    /\ IsPrefix(Calls(task.log), DeleteCalls(Batch(task.p)))
    /\ task.pc = "done" =>
         /\ Calls(task.log) = DeleteCalls(Batch(task.p))
         /\ task.ret.ok \/ task.ret.kind # "Keyring"

\* The first keyring delete failed, the second found no entry, the file
\* removal was made all the same and delete returned success.
C7_Witness ==
  /\ DeleteRuns /\ task.pc = "done"
  /\ Len(task.log) = 3
  /\ task.log[1].res = "err" /\ task.log[2].res = "noent"
  /\ task.log[3].call = "fs.remove"
  /\ task.ret = Ok(Unit)

\* C8: a delete whose file removal found no file returns success; one whose
\* removal succeeded returns success and leaves the file absent; one whose
\* removal failed otherwise returns that error, after the keyring delete of
\* every descriptor of the batch was made.
C8_DeleteFileOutcome ==
  (DeleteRuns /\ task.pc = "done") =>
    /\ Last(task.log).call = "fs.remove"
    /\ Last(task.log).res \in {"ok", "noent"} =>
         task.ret = Ok(Unit) /\ ~files[Dest].exists
    /\ Last(task.log).res = "err" =>
         /\ task.ret = Err("Io")
         /\ Calls(task.log) = DeleteCalls(Batch(task.p))

\* The removal of an existing file failed after both keyring deletes.
C8_Witness ==
  /\ DeleteRuns /\ task.pc = "done"
  /\ Len(Batch(task.p)) = 2 /\ Len(task.log) = 3
  /\ Last(task.log).res = "err" /\ task.ret = Err("Io")
  /\ files[Dest].exists
  /\ \A k \in 1..2 : ~keyring[EntryKey(AppOpts, Batch(task.p)[k].id)].has

\* A load with withUnlock=true, or an unlock, that was given a batch.
Reinflates ==
  /\ Returned("unlock") \/ (Returned("load") /\ task.p.with_unlock)
  /\ Paired(task.p)

\* C9: a load with withUnlock=true or an unlock that returns a tree found
\* the secret of every descriptor in the keyring; one that asked for a
\* secret that is absent returns a keyring error.  The adapter's delete of
\* an absent entry is a success and leaves the keyring as it is.
C9_MissingSecretFails ==
  /\ Reinflates =>
       /\ task.ret.ok =>
            \A k \in 1..Len(Batch(task.p)) :
              keyring[EntryKey(task.p.keyring_options.v, Batch(task.p)[k].id)].has
       /\ (task.log # <<>> /\ Last(task.log) = Ev("keyring.get", Last(task.log).id, "noent"))
            => task.ret = Err("Keyring")
  /\ \A key \in KeyringKeys :
       ~keyring[key].has => KeyringStoreDelete(keyring, key) = [ok |-> TRUE, store |-> keyring]

\* A load with withUnlock=true read a file that holds null at a.b, found no
\* secret for it and returned a keyring error.
C9_Witness ==
  /\ Reinflates /\ task.op = "load"
  /\ Last(task.log) = Ev("keyring.get", K1, "noent")
  /\ task.ret = Err("Keyring")
  /\ OnDisk.ok /\ Get(OnDisk.v, Segments(D1)) = Some(Null)

\* The position of the last descriptor of the batch that carries `id`.
LastWith(entries, id) ==
  CHOOSE k \in 1..Len(entries) :
    entries[k].id = id /\ \A j \in (k + 1)..Len(entries) : entries[j].id # id

\* C10: after a create or save that succeeds with descriptors and options
\* {service, account}, the keyring holds for every descriptor, under service
\* and user account/id, the value of the last descriptor of the batch with
\* that id; and for data {} (or none) with the one descriptor at a.b the
\* tree on disk is {a: {b: null}}.
C10_KeyringHoldsLastValue ==
  WroteWithBatch =>
    LET o == task.p.keyring_options.v
        entries == task.p.keyring_entries.v
    IN /\ \A k \in 1..Len(entries) :
            keyring[<<o.service, o.account \o <<"/">> \o entries[k].id>>]
              = Entry(entries[LastWith(entries, entries[k].id)].value)
       /\ (entries = <<D1>> /\ task.p.data \in {None, Some(Obj(EmptyMap))})
            => OnDisk = [ok |-> TRUE, v |-> Obj(<<"a">> :> Obj(<<"b">> :> Null))]

\* Two descriptors carried the id k1: the keyring holds the value of the
\* second in place of the secret stored before the command.
C10_Witness ==
  /\ WroteWithBatch
  /\ task.p.keyring_entries.v = <<D1, D3>>
  /\ initial.exists
  /\ keyring[<<AppOpts.service, <<"u", "/", "k", "1">>>>] = Entry(D3.value)

\* ------------------------------------------- claims: writers of one path
\* Every caller is outside write_file_safely.
AllReturned == \A w \in Writers : wr[w].pc \in {"idle", "ret"}

\* C11 as stated, without the order of the renames: once every writer has
\* returned and at least one of them returned success, the destination
\* exists and holds the complete bytes of a writer that returned success;
\* it is never absent.
C11_DestHoldsAWinner ==
  (AllReturned /\ \E w \in Writers : wr[w].ret = "Ok")
    => /\ files[Dest].exists
       /\ \E w \in Writers : wr[w].ret = "Ok" /\ files[Dest] = File(wr[w].bytes)

\* ------------------------------------------------- the codecs, byte by byte
\* The commands above use Encode/Decode, which name what a file holds.  The
\* definitions below model the four backends on the bytes themselves: the
\* JSON and YAML texts, the bincode frame and the XChaCha20-Poly1305 box.
\* Numbers are unsigned integers, strings hold no control character and
\* there are no arrays: the values of the model.
Ch(c) == [ch |-> c]                \* the byte of one character of a text
U8(n) == [u8 |-> n]                \* a byte given by its value
TextBytes(chars) == [k \in 1..Len(chars) |-> Ch(chars[k])]
IsText(bytes) == \A k \in 1..Len(bytes) : DOMAIN bytes[k] = {"ch"}
CharsOf(bytes) == [k \in 1..Len(bytes) |-> bytes[k].ch]

Quote == "\""
Backslash == "\\"
Drop(s, n) == SubSeq(s, n + 1, Len(s))
StartsWith(s, p) == Len(p) <= Len(s) /\ SubSeq(s, 1, Len(p)) = p
NullText == <<"n", "u", "l", "l">>
TrueText == <<"t", "r", "u", "e">>
FalseText == <<"f", "a", "l", "s", "e">>

\* The keys of a map in the order the serializer visits them.
RECURSIVE KeyOrder(_)
KeyOrder(S) ==
  IF S = {} THEN <<>>
  ELSE LET k == CHOOSE x \in S : TRUE IN <<k>> \o KeyOrder(S \ {k})

\* serde_json, writing a string: quotes around it, `"` and `\` escaped.
RECURSIVE JsonEscape(_)
JsonEscape(s) ==
  IF s = <<>> THEN <<>>
  ELSE (IF Head(s) \in {Quote, Backslash} THEN <<Backslash, Head(s)>> ELSE <<Head(s)>>)
       \o JsonEscape(Tail(s))

JsonString(s) == <<Quote>> \o JsonEscape(s) \o <<Quote>>

Indent(depth) == [k \in 1..(2 * depth) |-> " "]

\* serde_json::to_vec (pretty = FALSE: storage.rs:140, 203) and
\* serde_json::to_vec_pretty (pretty = TRUE: storage.rs:86)
RECURSIVE ToJson(_, _, _)
RECURSIVE ToJsonMembers(_, _, _, _)
ToJson(v, pretty, depth) ==
  CASE v.t = "null" -> NullText
    [] v.t = "bool" -> v.s
    [] v.t = "num" -> v.s
    [] v.t = "str" -> JsonString(v.s)
    [] v.t = "obj" ->
         IF DOMAIN v.m = {} THEN <<"{", "}">>
         ELSE <<"{">> \o ToJsonMembers(v.m, KeyOrder(DOMAIN v.m), pretty, depth + 1)
              \o (IF pretty THEN <<"\n">> \o Indent(depth) ELSE <<>>) \o <<"}">>

ToJsonMembers(m, keys, pretty, depth) ==
  IF keys = <<>> THEN <<>>
  ELSE (IF pretty THEN <<"\n">> \o Indent(depth) ELSE <<>>)
       \o JsonString(Head(keys)) \o <<":">> \o (IF pretty THEN <<" ">> ELSE <<>>)
       \o ToJson(m[Head(keys)], pretty, depth)
       \o (IF Len(keys) > 1 THEN <<",">> ELSE <<>>)
       \o ToJsonMembers(m, Tail(keys), pretty, depth)

\* The result of a parser that failed, and of one that read v and left rest.
NoParse == [ok |-> FALSE]
Parsed(v, rest) == [ok |-> TRUE, v |-> v, rest |-> rest]

JsonWs == {" ", "\n", "\t", "\r"}
RECURSIVE SkipWs(_)
SkipWs(s) == IF s # <<>> /\ Head(s) \in JsonWs THEN SkipWs(Tail(s)) ELSE s

\* The longest run of digits at the head of s.
RECURSIVE DigitRun(_)
DigitRun(s) ==
  IF s # <<>> /\ Head(s) \in Digits THEN <<Head(s)>> \o DigitRun(Tail(s)) ELSE <<>>

\* serde_json, reading a string after its opening quote.
RECURSIVE ParseJsonString(_, _)
ParseJsonString(s, acc) ==
  IF s = <<>> THEN NoParse
  ELSE IF Head(s) = Quote THEN Parsed(acc, Tail(s))
  ELSE IF Head(s) = Backslash
       THEN IF Len(s) >= 2 /\ s[2] \in {Quote, Backslash}
            THEN ParseJsonString(Drop(s, 2), Append(acc, s[2]))
            ELSE NoParse
  ELSE IF Head(s) \in {"\n", "\t", "\r"} THEN NoParse
  ELSE ParseJsonString(Tail(s), Append(acc, Head(s)))

\* serde_json, reading one value at the head of s.
RECURSIVE ParseJsonValue(_)
RECURSIVE ParseJsonMembers(_, _)
ParseJsonValue(s0) ==
  LET s == SkipWs(s0)
  IN IF s = <<>> THEN NoParse
     ELSE IF StartsWith(s, NullText) THEN Parsed(Null, Drop(s, 4))
     ELSE IF StartsWith(s, TrueText) THEN Parsed(Bool(TrueText), Drop(s, 4))
     ELSE IF StartsWith(s, FalseText) THEN Parsed(Bool(FalseText), Drop(s, 5))
     ELSE IF Head(s) \in Digits
          THEN LET run == DigitRun(s)
               IN IF Len(run) > 1 /\ Head(run) = "0" THEN NoParse
                  ELSE Parsed(Num(run), Drop(s, Len(run)))
     ELSE IF Head(s) = Quote
          THEN LET r == ParseJsonString(Tail(s), <<>>)
               IN IF r.ok THEN Parsed(Str(r.v), r.rest) ELSE NoParse
     ELSE IF Head(s) = "{"
          THEN LET s1 == SkipWs(Tail(s))
               IN IF s1 # <<>> /\ Head(s1) = "}" THEN Parsed(Obj(EmptyMap), Tail(s1))
                  ELSE ParseJsonMembers(s1, EmptyMap)
     ELSE NoParse

\* The members of an object, from a key on; a repeated key keeps the last.
ParseJsonMembers(s, m) ==
  IF s = <<>> \/ Head(s) # Quote THEN NoParse
  ELSE LET k == ParseJsonString(Tail(s), <<>>)
       IN IF ~k.ok THEN NoParse
          ELSE LET s1 == SkipWs(k.rest)
               IN IF s1 = <<>> \/ Head(s1) # ":" THEN NoParse
                  ELSE LET v == ParseJsonValue(Tail(s1))
                       IN IF ~v.ok THEN NoParse
                          ELSE LET s2 == SkipWs(v.rest)
                                   m2 == Put(m, k.v, v.v)
                               IN IF s2 = <<>> THEN NoParse
                                  ELSE IF Head(s2) = "}" THEN Parsed(Obj(m2), Tail(s2))
                                  ELSE IF Head(s2) = ","
                                       THEN ParseJsonMembers(SkipWs(Tail(s2)), m2)
                                  ELSE NoParse

\* serde_json::from_slice: one value, then nothing but white space.
FromJson(bytes) ==
  IF ~IsText(bytes) THEN NoParse
  ELSE LET r == ParseJsonValue(CharsOf(bytes))
       IN IF r.ok /\ SkipWs(r.rest) = <<>> THEN Parsed(r.v, <<>>) ELSE NoParse

\* ----- YAML (serde_yaml), for the values of the model: block mappings,
\* `{}`, and scalars that are plain or single-quoted.
\* What a plain scalar resolves to when it is read.
YamlResolve(text) ==
  IF text = <<>> \/ text = NullText \/ text = <<"~">> THEN Null
  ELSE IF text = TrueText \/ text = FalseText THEN Bool(text)
  ELSE IF /\ \A k \in 1..Len(text) : text[k] \in Digits
          /\ (Len(text) = 1 \/ text[1] # "0")
       THEN Num(text)
  ELSE Str(text)

YamlIndicators ==
  {Quote, "'", "#", "{", "}", "[", "]", "&", "*", "!", "|", ">", "%", "@",
   "-", "?", ":", ","}

\* The emitter writes a string plain only when it reads back as that string.
YamlPlainSafe(s) ==
  /\ s # <<>>
  /\ YamlResolve(s) = Str(s)
  /\ Head(s) \notin YamlIndicators
  /\ Head(s) # " " /\ s[Len(s)] \notin {" ", ":"}
  /\ \A k \in 1..Len(s) : s[k] \notin {"\n", "\t", "\r"}
  /\ \A k \in 1..(Len(s) - 1) :
       ~(s[k] = ":" /\ s[k + 1] = " ") /\ ~(s[k] = " " /\ s[k + 1] = "#")

RECURSIVE YamlEscape(_)
YamlEscape(s) ==
  IF s = <<>> THEN <<>>
  ELSE (IF Head(s) = "'" THEN <<"'", "'">> ELSE <<Head(s)>>) \o YamlEscape(Tail(s))

\* The variant of YamlString that never quotes.
YamlStringPlain(s) == s

YamlString(s) ==
  IF YamlPlainSafe(s) THEN s ELSE <<"'">> \o YamlEscape(s) \o <<"'">>

\* A value the emitter writes on the line of its key.
YamlInline(v) == v.t # "obj" \/ DOMAIN v.m = {}

YamlScalar(v) ==
  CASE v.t = "null" -> NullText
    [] v.t = "bool" -> v.s
    [] v.t = "num" -> v.s
    [] v.t = "str" -> YamlString(v.s)
    [] v.t = "obj" -> <<"{", "}">>

\* serde_yaml::to_value, then serde_yaml::to_string (storage.rs:110-113)
RECURSIVE ToYamlEntries(_, _, _)
ToYamlEntries(m, keys, depth) ==
  IF keys = <<>> THEN <<>>
  ELSE LET v == m[Head(keys)]
       IN Indent(depth) \o YamlString(Head(keys)) \o <<":">>
          \o (IF YamlInline(v) THEN <<" ">> \o YamlScalar(v) \o <<"\n">>
              ELSE <<"\n">> \o ToYamlEntries(v.m, KeyOrder(DOMAIN v.m), depth + 1))
          \o ToYamlEntries(m, Tail(keys), depth)

ToYaml(v) ==
  IF YamlInline(v) THEN YamlScalar(v) \o <<"\n">>
  ELSE ToYamlEntries(v.m, KeyOrder(DOMAIN v.m), 0)

\* The lines of a text, empty ones dropped.
NonEmptyLines(chars) == SelectSeq(Split(chars, "\n"), LAMBDA l : l # <<>>)

RECURSIVE LeadingSpaces(_)
LeadingSpaces(l) ==
  IF l # <<>> /\ Head(l) = " " THEN 1 + LeadingSpaces(Tail(l)) ELSE 0

\* A single-quoted scalar after its opening quote; '' stands for one quote.
RECURSIVE ParseYamlQuoted(_, _)
ParseYamlQuoted(s, acc) ==
  IF s = <<>> THEN NoParse
  ELSE IF Head(s) = "'"
       THEN IF Len(s) >= 2 /\ s[2] = "'"
            THEN ParseYamlQuoted(Drop(s, 2), Append(acc, "'"))
            ELSE Parsed(acc, Tail(s))
  ELSE ParseYamlQuoted(Tail(s), Append(acc, Head(s)))

\* The scalar written on the rest of a line.
ParseYamlScalar(text) ==
  IF text # <<>> /\ Head(text) = "'"
  THEN LET r == ParseYamlQuoted(Tail(text), <<>>)
       IN IF r.ok /\ r.rest = <<>> THEN Parsed(Str(r.v), <<>>) ELSE NoParse
  ELSE IF text = <<"{", "}">> THEN Parsed(Obj(EmptyMap), <<>>)
  ELSE IF text # <<>> /\ Head(text) \in YamlIndicators \ {"-", "?", ":"} THEN NoParse
  ELSE Parsed(YamlResolve(text), <<>>)

\* The plain key at the head of a line: up to a colon that ends the line or
\* is followed by a space.
RECURSIVE PlainKey(_, _)
PlainKey(s, acc) ==
  IF s = <<>> THEN NoParse
  ELSE IF Head(s) = ":" /\ (Len(s) = 1 \/ s[2] = " ") THEN Parsed(acc, Tail(s))
  ELSE PlainKey(Tail(s), Append(acc, Head(s)))

\* The key of a mapping entry; rest is what follows its colon.
ParseYamlKey(body) ==
  IF body = <<>> THEN NoParse
  ELSE IF Head(body) = "'"
       THEN LET r == ParseYamlQuoted(Tail(body), <<>>)
            IN IF r.ok /\ r.rest # <<>> /\ Head(r.rest) = ":"
               THEN Parsed(r.v, Tail(r.rest)) ELSE NoParse
  ELSE IF Head(body) \in YamlIndicators THEN NoParse
  ELSE PlainKey(body, <<>>)

\* The entries of a block mapping indented by ind, from the first line on.
RECURSIVE ParseYamlMap(_, _, _)
ParseYamlMap(lines, ind, m) ==
  IF lines = <<>> \/ LeadingSpaces(Head(lines)) < ind THEN Parsed(Obj(m), lines)
  ELSE IF LeadingSpaces(Head(lines)) > ind THEN NoParse
  ELSE LET k == ParseYamlKey(Drop(Head(lines), ind))
           more == Tail(lines)
       IN IF ~k.ok THEN NoParse
          ELSE IF k.rest = <<>>
               THEN IF more # <<>> /\ LeadingSpaces(Head(more)) > ind
                    THEN LET r == ParseYamlMap(more, LeadingSpaces(Head(more)), EmptyMap)
                         IN IF r.ok THEN ParseYamlMap(r.rest, ind, Put(m, k.v, r.v))
                            ELSE NoParse
                    ELSE ParseYamlMap(more, ind, Put(m, k.v, Null))
          ELSE IF Head(k.rest) # " " THEN NoParse
          ELSE LET v == ParseYamlScalar(Tail(k.rest))
               IN IF v.ok THEN ParseYamlMap(more, ind, Put(m, k.v, v.v)) ELSE NoParse

\* serde_yaml::from_slice, then serde_json::to_value (storage.rs:101-105)
FromYaml(bytes) ==
  IF ~IsText(bytes) THEN NoParse
  ELSE LET lines == NonEmptyLines(CharsOf(bytes))
       IN IF lines = <<>> THEN Parsed(Null, <<>>)
          ELSE IF ParseYamlKey(Head(lines)).ok
               THEN LET r == ParseYamlMap(lines, 0, EmptyMap)
                    IN IF r.ok /\ r.rest = <<>> THEN Parsed(r.v, <<>>) ELSE NoParse
          ELSE IF Len(lines) = 1 THEN ParseYamlScalar(Head(lines))
          ELSE NoParse

\* ----- bincode (plain binary backend): a Vec<u8> is its length as a u64,
\* little endian, then its bytes.
LenPrefixLen == 8
\* Byte k (from 1, least significant first) of the number n.
RECURSIVE ByteOf(_, _)
ByteOf(n, k) == IF k = 1 THEN n % 256 ELSE ByteOf(n \div 256, k - 1)

\* bincode::serialize(&json_bytes)  (storage.rs:141-142)
BincodeSerialize(payload) ==
  [k \in 1..LenPrefixLen |-> U8(ByteOf(Len(payload), k))] \o payload

\* The number whose bytes, least significant first, are `prefix`.
RECURSIVE LittleEndian(_)
LittleEndian(prefix) ==
  IF prefix = <<>> THEN 0 ELSE Head(prefix).u8 + 256 * LittleEndian(Tail(prefix))

\* bincode::deserialize::<Vec<u8>>(&bytes)  (storage.rs:132-133): the length,
\* then that many bytes; bytes after them are ignored.  A length with a
\* non-zero byte above the third exceeds every file; eight bytes that are
\* characters or random bytes give such a length.
BincodeDeserialize(bytes) ==
  IF Len(bytes) < LenPrefixLen THEN NoParse
  ELSE IF \E k \in 1..LenPrefixLen : DOMAIN bytes[k] # {"u8"} THEN NoParse
  ELSE IF \E k \in 4..LenPrefixLen : bytes[k].u8 # 0 THEN NoParse
  ELSE LET n == LittleEndian(SubSeq(bytes, 1, 3))
       IN IF Len(bytes) - LenPrefixLen < n THEN NoParse
          ELSE Parsed(SubSeq(bytes, LenPrefixLen + 1, LenPrefixLen + n), <<>>)

\* ----- XChaCha20-Poly1305 (encrypted backend), symbolically: a ciphertext
\* byte is opened only with its key and nonce, a tag is matched only by the
\* key, nonce and ciphertext it was made for, and the bytes the random
\* generator draws for one nonce differ from those of every other draw.
NonceLen == 24
TagLen == 16

\* storage.rs:165-171  BinaryEncryptedBackend::new: SHA-256 of the key string
DeriveKey(key_str) == [sha256 |-> key_str]

\* The variant of NonceBytes that is the same for every draw.
NonceBytesFixed(draw) == [k \in 1..NonceLen |-> [rnd |-> 0, pos |-> k]]

\* storage.rs:205-206  the 24 bytes of one draw of thread_rng
NonceBytes(draw) == [k \in 1..NonceLen |-> [rnd |-> draw, pos |-> k]]

\* XNonce::from_slice  (storage.rs:186, 207): the 192-bit number the bytes
\* spell.  The bytes of one draw spell the number of that draw; any other
\* 24 bytes spell a number that no draw gives.
XNonceFromSlice(nonce_bytes) ==
  IF /\ DOMAIN nonce_bytes[1] = {"rnd", "pos"}
     /\ nonce_bytes = NonceBytes(nonce_bytes[1].rnd)
  THEN [drawn |-> nonce_bytes[1].rnd]
  ELSE [drawn |-> -1]

\* The 16 bytes of the tag of `body` under a key and a nonce: the first
\* carries what the tag is a digest of, the others their place in the tag,
\* so that two tags are equal exactly when key, nonce and body are.
Poly1305(key, nonce, body) ==
  [k \in 1..TagLen |->
     IF k = 1 THEN [tag |-> k, key |-> key, nonce |-> nonce, of |-> body]
     ELSE [tag |-> k, key |-> key, nonce |-> nonce]]

\* cipher.encrypt(nonce, plaintext)  (storage.rs:210-212)
AeadEncrypt(key, nonce, plaintext) ==
  LET body == [k \in 1..Len(plaintext) |->
                 [enc |-> plaintext[k], key |-> key, nonce |-> nonce, pos |-> k]]
  IN body \o Poly1305(key, nonce, body)

\* The variant of AeadDecrypt that opens the ciphertext without comparing
\* the tag.
AeadDecryptUnchecked(key, nonce, ciphertext) ==
  IF Len(ciphertext) < TagLen THEN NoParse
  ELSE LET body == SubSeq(ciphertext, 1, Len(ciphertext) - TagLen)
       IN Parsed([k \in 1..Len(body) |->
                    IF "enc" \in DOMAIN body[k] THEN body[k].enc ELSE body[k]], <<>>)

\* cipher.decrypt(nonce, ciphertext)  (storage.rs:190-192)
AeadDecrypt(key, nonce, ciphertext) ==
  IF Len(ciphertext) < TagLen THEN NoParse
  ELSE LET body == SubSeq(ciphertext, 1, Len(ciphertext) - TagLen)
           tag == Drop(ciphertext, Len(ciphertext) - TagLen)
       IN IF /\ tag = Poly1305(key, nonce, body)
             /\ \A k \in 1..Len(body) :
                  /\ DOMAIN body[k] = {"enc", "key", "nonce", "pos"}
                  /\ body[k].key = key /\ body[k].nonce = nonce /\ body[k].pos = k
          THEN Parsed([k \in 1..Len(body) |-> body[k].enc], <<>>)
          ELSE NoParse

\* ----- the four backends on bytes
\* The cipher key of an encrypted backend of BackendFor.
CipherKey(backend) == DeriveKey(backend.key.v)

\* StorageBackend::write up to the call of write_file_safely: the bytes.
\* storage.rs:86 (json), 110-113 (yaml), 140-142 (binary), 203-217 (encrypted)
WriteBytes(backend, value, draw) ==
  CASE backend.kind = "json" -> TextBytes(ToJson(value, TRUE, 0))
    [] backend.kind = "yaml" -> TextBytes(ToYaml(value))
    [] backend.kind = "binary" -> BincodeSerialize(TextBytes(ToJson(value, FALSE, 0)))
    [] backend.kind = "encrypted" ->
         NonceBytes(draw)
         \o AeadEncrypt(CipherKey(backend), XNonceFromSlice(NonceBytes(draw)),
                        TextBytes(ToJson(value, FALSE, 0)))

\* error.rs:48-57  the kind tag under which an error is serialized
KindTag(kind) ==
  CASE kind = "Io" -> "io"
    [] kind = "Storage" -> "storage"
    [] kind = "Keyring" -> "keyring"
    [] kind = "Dotpath" -> "dotpath"
    [] kind = "InvalidPayload" -> "invalid_payload"
    [] kind = "Json" -> "json"

\* The results of a read.  decrypted: cipher.decrypt was called.
ReadOk(v) == [ok |-> TRUE, v |-> v]
ReadErr(kind, msg, decrypted) ==
  [ok |-> FALSE, kind |-> kind, msg |-> msg, decrypted |-> decrypted]

\* storage.rs:79-83  JsonBackend::read: `?` turns the serde_json error into
\* Error::Json
JsonRead(bytes) ==
  LET r == FromJson(bytes)
  IN IF r.ok THEN ReadOk(r.v) ELSE ReadErr("Json", "serde_json", FALSE)

\* storage.rs:99-107  YamlBackend::read
YamlRead(bytes) ==
  LET r == FromYaml(bytes)
  IN IF r.ok THEN ReadOk(r.v) ELSE ReadErr("Storage", "serde_yaml", FALSE)

\* storage.rs:130-137  BinaryBackend::read
BinaryRead(bytes) ==
  LET frame == BincodeDeserialize(bytes)
  IN IF ~frame.ok THEN ReadErr("Storage", "bincode", FALSE)
     ELSE LET r == FromJson(frame.v)
          IN IF r.ok THEN ReadOk(r.v) ELSE ReadErr("Storage", "serde_json", FALSE)

\* The variant of BinaryEncryptedBackend::read whose length check also
\* rejects a file of exactly the length of a nonce.
EncryptedReadOffByOne(key, bytes) ==
  IF Len(bytes) <= NonceLen
  THEN ReadErr("Storage", "encrypted file is too short (missing nonce)", FALSE)
  ELSE LET plain == AeadDecrypt(key, XNonceFromSlice(SubSeq(bytes, 1, NonceLen)),
                                Drop(bytes, NonceLen))
       IN IF ~plain.ok
          THEN ReadErr("Storage", "decryption failed: wrong key or corrupted data", TRUE)
          ELSE LET r == FromJson(plain.v)
               IN IF r.ok THEN ReadOk(r.v) ELSE ReadErr("Storage", "serde_json", TRUE)

\* storage.rs:175-197  BinaryEncryptedBackend::read
EncryptedRead(key, bytes) ==
  IF Len(bytes) < NonceLen
  THEN ReadErr("Storage", "encrypted file is too short (missing nonce)", FALSE)
  ELSE LET plain == AeadDecrypt(key, XNonceFromSlice(SubSeq(bytes, 1, NonceLen)),
                                Drop(bytes, NonceLen))
       IN IF ~plain.ok
          THEN ReadErr("Storage", "decryption failed: wrong key or corrupted data", TRUE)
          ELSE LET r == FromJson(plain.v)
               IN IF r.ok THEN ReadOk(r.v) ELSE ReadErr("Storage", "serde_json", TRUE)

\* StorageBackend::read of a path: std::fs::read, then the decoding.
ReadFile(backend, file) ==
  IF ~file.exists THEN ReadErr("Io", "NotFound", FALSE)
  ELSE CASE backend.kind = "json" -> JsonRead(file.bytes)
         [] backend.kind = "yaml" -> YamlRead(file.bytes)
         [] backend.kind = "binary" -> BinaryRead(file.bytes)
         [] backend.kind = "encrypted" -> EncryptedRead(CipherKey(backend), file.bytes)

\* ------------------------------------------ the backends on one path (SpecCodec)
\* A run writes values to one path through any of the backends, reads the
\* path back through any of them, and may alter or cut the file in between,
\* as another program could.
Passphrases == {<<"p", "w">>, <<"p", "x">>}
CodecBackends ==
  {BackendFor(f, k) : f \in {"json", "yaml", "binary"},
                      k \in {None} \cup {Some(pw) : pw \in Passphrases}}

CodecValues ==
  { Obj(EmptyMap), Tree1,
    Obj((<<"1">> :> Str(<<"1", "2", "3">>)) @@ (<<"t">> :> Str(TrueText))
        @@ (<<"e">> :> Str(<<>>)) @@ (<<"b">> :> Bool(FalseText))
        @@ (<<"z">> :> Null) @@ (<<"n">> :> Num(<<"4", "2">>))),
    Obj((<<"q">> :> Str(<<Quote, Backslash, "'", ":", " ", "#">>))
        @@ (<<"s">> :> Str(<<"~">>))
        @@ (<<"o">> :> Obj(<<"i">> :> Obj(EmptyMap)))) }

\* Lengths a file is cut to: up to just above the length of a nonce, and
\* one byte short.
CutLengths(len) == {n \in 0..(len - 1) : n <= NonceLen + 1 \/ n = len - 1}

\* The file holds the output of the encrypted backend: nonce, ciphertext, tag.
Sealed == ghost.writes # <<>> /\ ghost.writes[Len(ghost.writes)].backend.key # None

NoCodecTask == [op |-> "none", backend |-> None, ret |-> None]

\* The file was written by a backend and not touched since.
Untouched == ghost.altered = "no"

InitCodec ==
  /\ initial = NoFile
  /\ files = [f \in FileNames |-> NoFile]
  /\ called = {}
  /\ wr = [w \in Writers |-> IdleWriter]
  /\ keyring = EmptyKeyring
  /\ conf = [fmt |-> JsonFormat, schema |-> <<>>]
  /\ task = NoCodecTask
  /\ ghost = [writes |-> <<>>, altered |-> "no"]

\* StorageBackend::write that succeeds: the bytes of the backend replace the
\* file (storage.rs:85-88, 109-115, 139-144, 199-220).
StorageWrite ==
  /\ Len(ghost.writes) < MaxWrites
  /\ \E backend \in CodecBackends, value \in CodecValues :
       LET bytes == WriteBytes(backend, value, Len(ghost.writes) + 1)
       IN /\ files' = [files EXCEPT ![Dest] = File(bytes)]
          /\ ghost' = [writes |-> Append(ghost.writes,
                                         [backend |-> backend, value |-> value,
                                          bytes |-> bytes]),
                       altered |-> "no"]
          /\ task' = [op |-> "write", backend |-> Some(backend), ret |-> Some(ReadOk(Unit))]
  /\ UNCHANGED <<initial, called, wr, keyring, conf>>

\* StorageBackend::read (storage.rs:79-83, 99-107, 130-137, 175-197)
StorageRead ==
  /\ \E backend \in CodecBackends :
       task' = [op |-> "read", backend |-> Some(backend),
                ret |-> Some(ReadFile(backend, files[Dest]))]
  /\ UNCHANGED <<files, initial, called, wr, keyring, conf, ghost>>

\* Another program alters one byte of the ciphertext or the tag.
AlterByte ==
  /\ Untouched /\ Sealed
  /\ \E k \in (NonceLen + 1)..Len(files[Dest].bytes) :
       files' = [files EXCEPT ![Dest] =
                   File([files[Dest].bytes EXCEPT ![k] = [altered |-> @]])]
  /\ ghost' = [ghost EXCEPT !.altered = "byte"]
  /\ task' = NoCodecTask
  /\ UNCHANGED <<initial, called, wr, keyring, conf>>

\* Another program cuts the file short.
Truncate ==
  /\ Untouched /\ files[Dest].exists
  /\ \E n \in CutLengths(Len(files[Dest].bytes)) :
       files' = [files EXCEPT ![Dest] = File(SubSeq(files[Dest].bytes, 1, n))]
  /\ ghost' = [ghost EXCEPT !.altered = "cut"]
  /\ task' = NoCodecTask
  /\ UNCHANGED <<initial, called, wr, keyring, conf>>

NextCodec == StorageWrite \/ StorageRead \/ AlterByte \/ Truncate

SpecCodec == InitCodec /\ [][NextCodec]_vars

\* ------------------------------------------- dotpath set alone (SpecDotpath)
\* One call of set or nullify on a tree: the trees are every value of up to
\* two levels of mappings over two keys, the paths every string of up to
\* MaxPathLen characters over two letters and the dot.
DotKeys == {<<"a">>, <<"b">>}
DotLeaves == {Null, Str(<<"s">>)}
ObjectsOver(S) == {Obj(m) : m \in UNION {[K -> S] : K \in SUBSET DotKeys}}
DotTrees == DotLeaves \cup ObjectsOver(DotLeaves \cup ObjectsOver(DotLeaves))

PathChars == {"a", "b", "."}
DotPaths == UNION {[1..n -> PathChars] : n \in 0..MaxPathLen}
DotValues == {Str(<<"n">>), Obj(EmptyMap)}

InitDotpath ==
  /\ initial = NoFile
  /\ files = [f \in FileNames |-> NoFile]
  /\ called = {}
  /\ wr = [w \in Writers |-> IdleWriter]
  /\ keyring = EmptyKeyring
  /\ conf = [fmt |-> JsonFormat, schema |-> <<>>]
  /\ task = [op |-> "none"]
  /\ \E root \in DotTrees : ghost = [root |-> root]

\* The call of `op` on the tree with `path` and `new_val`: the result of the
\* call and the tree as the call leaves it.
DotpathCall(op, path, new_val, r) ==
  [op |-> op, path |-> path, new_val |-> new_val,
   ret |-> IF r.ok THEN Ok(Unit) ELSE Err("Dotpath"), tree |-> r.tree]

\* dotpath.rs:8-57  set(root, path, new_val)
DotpathSet ==
  /\ task.op = "none"
  /\ \E path \in DotPaths, new_val \in DotValues :
       task' = DotpathCall("set", path, new_val, DotSet(ghost.root, path, new_val))
  /\ UNCHANGED <<files, initial, called, wr, keyring, conf, ghost>>

\* dotpath.rs:61-63  nullify(root, path)
DotpathNullify ==
  /\ task.op = "none"
  /\ \E path \in DotPaths :
       task' = DotpathCall("nullify", path, Null, Nullify(ghost.root, path))
  /\ UNCHANGED <<files, initial, called, wr, keyring, conf, ghost>>

NextDotpath == DotpathSet \/ DotpathNullify

SpecDotpath == InitDotpath /\ [][NextDotpath]_vars

\* ------------------------------------------------------ claims: the backends
LastWrite == ghost.writes[Len(ghost.writes)]

\* A read of the file as the last write left it.
ReadsLastWrite ==
  task.op = "read" /\ Untouched /\ ghost.writes # <<>>

\* C12: through each backend (the encrypted one with the same passphrase),
\* a read of the path after any sequence of successful writes returns the
\* value of the most recent write.
C12_ReadReturnsLastWrite ==
  (ReadsLastWrite /\ task.backend.v = LastWrite.backend)
    => task.ret.v = ReadOk(LastWrite.value)

\* A YAML read after two writes of different values through different
\* backends returns the second value, whose strings look like other scalars.
C12_Witness ==
  /\ ReadsLastWrite /\ Len(ghost.writes) = 2
  /\ task.backend.v = LastWrite.backend /\ LastWrite.backend.kind = "yaml"
  /\ ghost.writes[1].backend.kind = "encrypted"
  /\ ghost.writes[1].value = Tree1
  /\ <<"1">> \in DOMAIN LastWrite.value.m
  /\ task.ret.v = ReadOk(LastWrite.value)

\* C13: the backend is selected by the format and the presence of a
\* passphrase alone: binary with a passphrase is the encrypted backend,
\* binary without one the plain binary backend, JSON and YAML their text
\* backend either way; so a file written as binary with a passphrase is not
\* read as binary without one, nor the reverse.
C13_BackendSelection ==
  \A pw \in Passphrases :
    /\ BackendFor("binary", Some(pw)).kind = "encrypted"
    /\ BackendFor("binary", None).kind = "binary"
    /\ \A f \in {"json", "yaml"} :
         BackendFor(f, Some(pw)) = BackendFor(f, None) /\ BackendFor(f, None).kind = f
    /\ (/\ ReadsLastWrite
        /\ \/ /\ LastWrite.backend = BackendFor("binary", Some(pw))
              /\ task.backend.v = BackendFor("binary", None)
           \/ /\ LastWrite.backend = BackendFor("binary", None)
              /\ task.backend.v = BackendFor("binary", Some(pw)))
       => ~task.ret.v.ok

\* A file written as binary with a passphrase was read as binary without
\* one, and the read failed on the length prefix.
C13_Witness ==
  /\ ReadsLastWrite
  /\ LastWrite.backend = BackendFor("binary", Some(<<"p", "w">>))
  /\ LastWrite.value = Tree1
  /\ task.backend.v = BackendFor("binary", None)
  /\ task.ret.v = ReadErr("Storage", "bincode", FALSE)

DecryptionFailed ==
  ReadErr("Storage", "decryption failed: wrong key or corrupted data", TRUE)

\* The file holds the output of the encrypted backend, whole, and is read
\* through an encrypted backend, with the passphrase of the write or another.
ReadsSealed ==
  /\ task.op = "read" /\ Sealed /\ ghost.altered # "cut"
  /\ task.backend.v.kind = "encrypted"

\* C14: the read of an encrypted file with another passphrase than the one
\* it was written with, or after one byte of its ciphertext or tag was
\* altered, fails, and with the same storage error in both cases.
C14_WrongKeyOrAlteredFailsAlike ==
  (ReadsSealed /\ (task.backend.v # LastWrite.backend \/ ghost.altered = "byte"))
    => task.ret.v = DecryptionFailed

\* The last byte of the tag was altered and the file read with the
\* passphrase it was written with.
C14_Witness ==
  /\ ReadsSealed /\ task.backend.v = LastWrite.backend /\ ghost.altered = "byte"
  /\ files[Dest].bytes[Len(files[Dest].bytes)] # LastWrite.bytes[Len(LastWrite.bytes)]
  /\ task.ret.v = DecryptionFailed

MissingNonce ==
  ReadErr("Storage", "encrypted file is too short (missing nonce)", FALSE)

\* A read through an encrypted backend of a file that exists.
ReadsEncrypted ==
  task.op = "read" /\ task.backend.v.kind = "encrypted" /\ files[Dest].exists

\* C15: the read of an encrypted file shorter than 24 bytes fails with the
\* storage error "missing nonce" whatever the passphrase and the content,
\* and without a call of decrypt; a file of 24 bytes or more is never
\* rejected by the length check.
C15_ShortFileMissingNonce ==
  ReadsEncrypted
    => IF Len(files[Dest].bytes) < 24
       THEN task.ret.v = MissingNonce
       ELSE task.ret.v.ok \/ task.ret.v.msg # MissingNonce.msg

\* A file written by the encrypted backend and cut to 23 bytes was read.
C15_Witness ==
  /\ ReadsEncrypted /\ Sealed /\ ghost.altered = "cut"
  /\ Len(files[Dest].bytes) = 23
  /\ task.ret.v = MissingNonce

\* Two writes of one run through the encrypted backend with one passphrase.
SealedAlike(i, j) ==
  /\ i < j
  /\ ghost.writes[i].backend.kind = "encrypted"
  /\ ghost.writes[i].backend = ghost.writes[j].backend

\* C16: two writes through the encrypted backend with the same passphrase
\* never give the same bytes, whether or not the value is the same: the 24
\* bytes at the start of each output are the nonce drawn for that write.
C16_SealedWritesDiffer ==
  \A i, j \in 1..Len(ghost.writes) :
    SealedAlike(i, j)
      => /\ ghost.writes[i].bytes # ghost.writes[j].bytes
         /\ SubSeq(ghost.writes[i].bytes, 1, 24) # SubSeq(ghost.writes[j].bytes, 1, 24)

\* The same value was written twice with the same passphrase.
C16_Witness ==
  /\ Len(ghost.writes) = 2 /\ SealedAlike(1, 2)
  /\ ghost.writes[1].value = Tree1 /\ ghost.writes[2].value = Tree1
  /\ ghost.writes[1].bytes # ghost.writes[2].bytes
  /\ Len(ghost.writes[1].bytes) = Len(ghost.writes[2].bytes)

\* --------------------------------------------- paths of files (SpecPath)
\* One call of a validator or of resolve_path.  A path is the sequence of
\* its components, the first being the root or a drive.
\* commands.rs:57-59  validate_config_name
ValidateConfigName(name) == ValidatePathComponent(name)

\* The variant of validate_dir_name that checks only that the string is not
\* empty.
ValidateDirNameNonEmpty(dir_name) == dir_name # <<>>

\* commands.rs:65-73  validate_dir_name
ValidateDirName(dir_name) ==
  IF dir_name = <<>> THEN FALSE
  ELSE \A k \in 1..Len(Split(dir_name, "/")) :
         ValidatePathComponent(Split(dir_name, "/")[k])

\* commands.rs:78-86  validate_path_field
ValidatePathField(path) ==
  IF path = <<>> THEN FALSE
  ELSE \A k \in 1..Len(Split(path, "/")) : ValidatePathComponent(Split(path, "/")[k])

\* The result of a validator: Ok(()) or Error::InvalidPayload.
Checked(valid) == IF valid THEN Ok(Unit) ELSE Err("InvalidPayload")

\* std::path on the two families of platforms: the separators, and which
\* strings are absolute or carry a drive.
Platforms == {"unix", "windows"}
RootDir == <<"/">>
ParentDir == <<".", ".">>
CurDir == <<".">>

\* The string with each separator of the platform written as a slash.
Slashed(platform, s) ==
  [k \in 1..Len(s) |-> IF platform = "windows" /\ s[k] = Backslash THEN "/" ELSE s[k]]

HasDrive(platform, s) == platform = "windows" /\ Len(s) >= 2 /\ s[2] = ":"
HasRoot(platform, s) == s # <<>> /\ Slashed(platform, s)[1] = "/"

\* Path::components of a relative string: empty pieces and `.` are skipped,
\* `..` is kept.
Components(platform, s) ==
  SelectSeq(Split(Slashed(platform, s), "/"), LAMBDA c : c # <<>> /\ c # CurDir)

\* PathBuf::join  (commands.rs:145, 147, 155, 160): a string with a root or a
\* drive replaces the path it is joined to.
Join(platform, p, s) ==
  IF HasDrive(platform, s)
  THEN <<SubSeq(s, 1, 2)>> \o Components(platform, Drop(s, 2))
  ELSE IF HasRoot(platform, s) THEN <<RootDir>> \o Components(platform, s)
  ELSE p \o Components(platform, s)

\* Path::file_name: the last component, if it is a name.
FileName(p) ==
  IF Len(p) <= 1 \/ p[Len(p)] = ParentDir THEN None ELSE Some(p[Len(p)])

\* Path::parent
Parent(p) == IF Len(p) <= 1 THEN None ELSE Some(SubSeq(p, 1, Len(p) - 1))

\* commands.rs:116-160  resolve_path.  base: the result of
\* app.path().resolve("", dir); identifier: app.config().identifier.
ResolvePathOn(platform, base, identifier, name, dir_name, path) ==
  IF ~ValidateConfigName(name) THEN Err("InvalidPayload")
  ELSE IF dir_name.some /\ ~ValidateDirName(dir_name.v) THEN Err("InvalidPayload")
  ELSE IF path.some /\ ~ValidatePathField(path.v) THEN Err("InvalidPayload")
  ELSE IF ~base.ok THEN Err("Storage")
  ELSE LET root == IF dir_name.some
                   THEN IF FileName(base.v) = Some(identifier)
                        THEN Join(platform,
                                  IF Parent(base.v).some THEN Parent(base.v).v ELSE base.v,
                                  dir_name.v)
                        ELSE Join(platform, base.v, dir_name.v)
                   ELSE base.v
           parent == IF path.some THEN Join(platform, root, path.v) ELSE root
       IN Ok(Join(platform, parent, name))

\* The strings handed to the validators: every string of up to
\* MaxComponentLen characters over a letter, the dot, the slash and the
\* space, and every string of up to two characters with the forbidden ones.
StringsOver(chars, n) == UNION {[1..k -> chars] : k \in 0..n}
ValidatorStrings ==
  StringsOver({"a", ".", "/", " "}, MaxComponentLen)
    \cup StringsOver(ForbiddenChars \cup {"a", ".", " "}, 2)

\* The strings handed to resolve_path, and where the base directory is.
ResolveStrings ==
  StringsOver({"a", ".", "/"}, MaxNameLen)
    \cup {<<"C", ":">>, <<Backslash, "a">>, <<".", ".", Backslash>>}
Identifier == <<"i", "d">>
Bases ==
  { Ok(<<RootDir, <<"c", "f", "g">>, Identifier>>),      \* ends with the identifier
    Ok(<<RootDir, <<"h">>, <<"D", "e", "s", "k">>>>),    \* does not
    Err("UnknownPath") }                                 \* the resolver failed

InitPath ==
  /\ initial = NoFile
  /\ files = [f \in FileNames |-> NoFile]
  /\ called = {}
  /\ wr = [w \in Writers |-> IdleWriter]
  /\ keyring = EmptyKeyring
  /\ conf = [fmt |-> JsonFormat, schema |-> <<>>]
  /\ task = [op |-> "none"]
  /\ ghost = [platform |-> "none"]

\* commands.rs:57-59  validate_config_name(name)
ValidateName ==
  /\ task.op = "none"
  /\ \E name \in ValidatorStrings :
       task' = [op |-> "name", s |-> name, ret |-> Checked(ValidateConfigName(name))]
  /\ UNCHANGED <<files, initial, called, wr, keyring, conf, ghost>>

\* commands.rs:65-73  validate_dir_name(dir_name)
ValidateDir ==
  /\ task.op = "none"
  /\ \E dir_name \in ValidatorStrings :
       task' = [op |-> "dirName", s |-> dir_name,
                ret |-> Checked(ValidateDirName(dir_name))]
  /\ UNCHANGED <<files, initial, called, wr, keyring, conf, ghost>>

\* commands.rs:78-86  validate_path_field(path)
ValidatePath ==
  /\ task.op = "none"
  /\ \E path \in ValidatorStrings :
       task' = [op |-> "path", s |-> path, ret |-> Checked(ValidatePathField(path))]
  /\ UNCHANGED <<files, initial, called, wr, keyring, conf, ghost>>

\* commands.rs:116-160  resolve_path(app, dir, name, dir_name, path)
Resolve ==
  /\ task.op = "none"
  /\ \E platform \in Platforms, base \in Bases, name \in ResolveStrings,
        dir_name \in {None} \cup {Some(d) : d \in ResolveStrings},
        path \in {None} \cup {Some(q) : q \in ResolveStrings} :
       /\ task' = [op |-> "resolve", base |-> base, name |-> name,
                   dir_name |-> dir_name, path |-> path,
                   ret |-> ResolvePathOn(platform, base, Identifier,
                                         name, dir_name, path)]
       /\ ghost' = [platform |-> platform]
  /\ UNCHANGED <<files, initial, called, wr, keyring, conf>>

NextPath == ValidateName \/ ValidateDir \/ ValidatePath \/ Resolve

SpecPath == InitPath /\ [][NextPath]_vars

\* ----------------------------------------------------- claims: dotpath set
\* A call of set, directly or through nullify, has returned.
SetCalled == task.op \in {"set", "nullify"}

\* The segments of the path of the call, and the first k of them.
Parts == Split(task.path, ".")
Prefix(k) == SubSeq(Parts, 1, k)

\* The path is not empty and none of its segments is.
WellFormed == task.path # <<>> /\ \A k \in 1..Len(Parts) : Parts[k] # <<>>

\* The root and every node a segment but the last leads to, where there is
\* one, is a mapping.
Traversable ==
  \A k \in 0..(Len(Parts) - 1) :
    Get(ghost.root, Prefix(k)).some => Get(ghost.root, Prefix(k)).v.t = "obj"

\* Every sequence of up to three keys, over the keys of the trees and the
\* segments of the path.
KeyPaths ==
  LET keys == DotKeys \cup {Parts[k] : k \in 1..Len(Parts)}
  IN UNION {[1..n -> keys] : n \in 1..3}

\* q leads neither to a node on the path nor into the value set.
Beside(q) == ~IsPrefix(q, Parts) /\ ~IsPrefix(Parts, q)

\* The tree after the call holds the value at the path, a mapping with the
\* next segment as its only key wherever an intermediate segment was missing,
\* and what it held before everywhere beside the path.
SetEffect ==
  /\ Get(task.tree, Parts) = Some(task.new_val)
  /\ \A k \in 1..(Len(Parts) - 1) :
       ~Get(ghost.root, Prefix(k)).some
         => /\ Get(task.tree, Prefix(k)).some
            /\ Get(task.tree, Prefix(k)).v.t = "obj"
            /\ DOMAIN Get(task.tree, Prefix(k)).v.m = {Parts[k + 1]}
  /\ \A q \in KeyPaths : Beside(q) => Get(task.tree, q) = Get(ghost.root, q)

\* C17 as stated: for every non-empty dotpath with no empty segment, set
\* creates an empty mapping at every missing intermediate segment, puts the
\* value under the final key, and leaves every other key of the tree as it
\* was.
C17_SetCreatesAndKeeps ==
  (SetCalled /\ WellFormed) => SetEffect

\* C17, amended: the same for every such dotpath whose root and nodes reached
\* by the segments but the last are mappings where they exist; the call
\* succeeds then.
C17_SetCreatesAndKeepsOnMappings ==
  (SetCalled /\ WellFormed /\ Traversable) => (task.ret.ok /\ SetEffect)

\* set of "b.a" on {a: {b: "s"}} gave {a: {b: "s"}, b: {a: "n"}}.
C17_Witness ==
  /\ task.op = "set" /\ task.path = <<"b", ".", "a">>
  /\ ghost.root = Obj(<<"a">> :> Obj(<<"b">> :> Str(<<"s">>)))
  /\ task.ret.ok
  /\ task.tree = Obj((<<"a">> :> Obj(<<"b">> :> Str(<<"s">>)))
                     @@ (<<"b">> :> Obj(<<"a">> :> Str(<<"n">>))))

\* The node reached by the first k segments exists and is not a mapping.
Blocked(k) ==
  Get(ghost.root, Prefix(k)).some /\ Get(ghost.root, Prefix(k)).v.t # "obj"

\* C18: set and nullify fail with a Dotpath error exactly when the path is
\* empty, or a segment between dots is empty, or the root, a node reached by
\* a non-final segment, or the node that must hold the final key exists and
\* is not a mapping; in every other case they succeed.
C18_FailsExactlyWhen ==
  SetCalled =>
    /\ task.ret \in {Ok(Unit), Err("Dotpath")}
    /\ ~task.ret.ok <=> \/ task.path = <<>>
                        \/ \E k \in 1..Len(Parts) : Parts[k] = <<>>
                        \/ \E k \in 0..(Len(Parts) - 1) : Blocked(k)

\* nullify of "a.b.a" on {a: {b: "s"}} failed: the node at a.b is a string.
C18_Witness ==
  /\ task.op = "nullify" /\ task.path = <<"a", ".", "b", ".", "a">>
  /\ ghost.root = Obj(<<"a">> :> Obj(<<"b">> :> Str(<<"s">>)))
  /\ Blocked(2) /\ ~Blocked(1) /\ ~Blocked(0)
  /\ task.ret = Err("Dotpath")
  /\ task.tree = ghost.root

\* ------------------------------------------------------- claims: file paths
\* A component as the claim accepts it: not empty, not made of dots only,
\* without a forbidden character, not ending with a space or a dot.
Acceptable(c) ==
  /\ c # <<>>
  /\ \E k \in 1..Len(c) : c[k] # "."
  /\ \A k \in 1..Len(c) :
       c[k] \notin {"/", Backslash, ":", "*", "?", Quote, "<", ">", "|", "NUL"}
  /\ c[Len(c)] # " " /\ c[Len(c)] # "."

\* A dirName or a path as the claim accepts it: not empty, and every
\* segment between slashes acceptable.
AcceptableSegments(s) ==
  s # <<>> /\ \A k \in 1..Len(Split(s, "/")) : Acceptable(Split(s, "/")[k])

\* name, dirName and path of a call of resolve_path are all acceptable.
AcceptablePayload ==
  /\ Acceptable(task.name)
  /\ task.dir_name.some => AcceptableSegments(task.dir_name.v)
  /\ task.path.some => AcceptableSegments(task.path.v)

\* C19: a name, and every slash-separated segment of a dirName or a path, is
\* accepted exactly when it is not empty, not made of dots only, holds none
\* of / \ : * ? " < > | and the null byte, and does not end with a space or
\* a dot; a leading dot is accepted; an empty dirName or path, or one with
\* an empty segment, is rejected; every rejection is InvalidPayload.
C19_ComponentsAccepted ==
  /\ ValidatePathComponent(<<".", "e", "n", "v">>)
  /\ task.op = "name" => (task.ret.ok <=> Acceptable(task.s))
  /\ task.op \in {"dirName", "path"} => (task.ret.ok <=> AcceptableSegments(task.s))
  /\ task.op \in {"name", "dirName", "path"}
       => task.ret \in {Ok(Unit), Err("InvalidPayload")}
  /\ task.op = "resolve"
       => /\ AcceptablePayload <=> (task.ret.ok \/ task.ret = Err("Storage"))
          /\ ~AcceptablePayload => task.ret = Err("InvalidPayload")

\* The dirName "a/a." was rejected: its second segment ends with a dot.
C19_Witness ==
  /\ task.op = "dirName" /\ task.s = <<"a", "/", "a", ".">>
  /\ Acceptable(Split(task.s, "/")[1]) /\ ~Acceptable(Split(task.s, "/")[2])
  /\ task.ret = Err("InvalidPayload")

\* The path with each `..` taken together with the component before it.
RECURSIVE Resolved(_)
Resolved(p) ==
  IF p = <<>> THEN <<>>
  ELSE LET front == Resolved(SubSeq(p, 1, Len(p) - 1))
       IN IF p[Len(p)] # ParentDir THEN Append(front, p[Len(p)])
          ELSE IF Len(front) > 1 THEN SubSeq(front, 1, Len(front) - 1)
          ELSE front

\* The root directory of a call of resolve_path that has a base: the base,
\* or with a dirName the parent of a base that ends with the identifier, or
\* else the base, followed by the segments of the dirName.
RootOf(base, dir_name) ==
  IF ~dir_name.some THEN base
  ELSE IF base[Len(base)] = Identifier
       THEN SubSeq(base, 1, Len(base) - 1) \o Split(dir_name.v, "/")
       ELSE base \o Split(dir_name.v, "/")

\* The segments of the optional path of the payload.
PathSegments(path) == IF path.some THEN Split(path.v, "/") ELSE <<>>

\* resolve_path has returned a path.
ResolvedPath == task.op = "resolve" /\ task.ret.ok

\* C20: a path that resolve_path returns is the root directory followed by
\* the segments of the path field and then the name, none of them a parent
\* directory, a current directory, a root or a drive; so it lies under the
\* root directory.
C20_ResolvedUnderRoot ==
  ResolvedPath =>
    LET root == RootOf(task.base.v, task.dir_name)
        below == PathSegments(task.path) \o <<task.name>>
    IN /\ task.ret.v = root \o below
       /\ \A k \in 1..Len(below) :
            /\ Acceptable(below[k])
            /\ below[k] \notin {ParentDir, CurDir, RootDir}
            /\ ~HasDrive(ghost.platform, below[k])
       /\ Resolved(root) = root
       /\ IsPrefix(root, Resolved(task.ret.v))
       /\ Len(Resolved(task.ret.v)) > Len(root)

\* With the base cfg/id, dirName "a/a", path ".a" and name "a.a" the path
\* returned is cfg/a/a/.a/a.a.
C20_Witness ==
  /\ ResolvedPath
  /\ task.base.v[Len(task.base.v)] = Identifier
  /\ task.dir_name = Some(<<"a", "/", "a">>)
  /\ task.path = Some(<<".", "a">>)
  /\ task.name = <<"a", ".", "a">>
  /\ task.ret.v = <<RootDir, <<"c", "f", "g">>, <<"a">>, <<"a">>, <<".", "a">>,
                    <<"a", ".", "a">>>>

\* ------------------------------------------------- claims: the commands, II
\* The log holds no call of the keyring.
NoKeyringCall(log) ==
  \A k \in 1..Len(log) :
    log[k].call \notin {"keyring.set", "keyring.get", "keyring.delete"}

\* The command in progress has a payload, and the pairing check on it.
HasPayload == task.op \in {"create", "save", "load", "delete", "unlock"}
PairOfTask == KeyringPair(task.op, task.p.keyring_entries, task.p.keyring_options)

\* The command has returned and has made the pairing check on the way:
\* create, save and delete after the path is resolved, unlock always, load
\* after a read that succeeded with withUnlock set.
PairChecked ==
  /\ task.pc = "done"
  /\ CASE task.op \in {"create", "save", "delete"} -> ValidatePathComponent(task.p.name)
       [] task.op = "unlock" -> TRUE
       [] task.op = "load" ->
            /\ task.p.with_unlock /\ task.log # <<>>
            /\ task.log[1].res = "ok" /\ task.ret # Err("Storage")
            /\ task.ret # Err("Json")
       [] OTHER -> FALSE

\* C21: the pairing check takes descriptors and options together (an empty
\* list of descriptors included) and processes them, takes neither for a
\* no-op that calls no secret store, and rejects descriptors without options
\* and options without descriptors with an error.
C21_PairingCheck ==
  HasPayload =>
    /\ Paired(task.p)
         => PairOfTask = Ok(Some([entries |-> task.p.keyring_entries.v,
                                  opts |-> task.p.keyring_options.v]))
    /\ (~task.p.keyring_entries.some /\ ~task.p.keyring_options.some)
         => PairOfTask = Ok(None) /\ NoKeyringCall(task.log)
    /\ Mismatched(task.p)
         => /\ PairOfTask = ErrPair(task.op) /\ NoKeyringCall(task.log)
            /\ PairChecked => task.ret = ErrPair(task.op)
    /\ (PairChecked /\ task.ret.ok = FALSE /\ task.ret.kind = "InvalidPayload")
         => Mismatched(task.p)

\* A save with options and no descriptors was rejected by the pairing check.
C21_Witness ==
  /\ Returned("save") /\ PairChecked
  /\ ~task.p.keyring_entries.some /\ task.p.keyring_options.some
  /\ task.ret = ErrPair("save") /\ task.log = <<>>

\* C22: through every backend, the read of a file whose bytes are malformed
\* for the format fails with an error whose kind tag is "storage", and the
\* read of a file that does not exist fails with an error whose kind tag is
\* "io".
C22_MalformedIsStorage ==
  task.op = "read" =>
    /\ ~files[Dest].exists => (~task.ret.v.ok /\ KindTag(task.ret.v.kind) = "io")
    /\ (files[Dest].exists /\ ~task.ret.v.ok) => KindTag(task.ret.v.kind) = "storage"

\* ---------------------------------------------------- claims: the writer, II
\* What a step of caller w inside write_file_safely may do to the renames
\* and the deletion, from its locals `a` before to `b` after the step.
RetryStep(w) ==
  LET a == wr[w]
      b == wr'[w]
  IN b # a =>
       /\ b.renames <= 2 /\ b.removes <= 1
       /\ b.pc = "exists" => (a.pc = "rename" /\ files' = files /\ b.renames = 1)
       /\ b.pc = "remove" => (a.pc = "exists" /\ files[Dest].exists /\ b.renames = 1)
       /\ b.pc = "rename2"
            => /\ a.pc = "remove" /\ a.renames = 1 /\ b.removes = 1
               /\ files[Dest].exists /\ ~files'[Dest].exists
       /\ b.renames = 2 => (a.pc = "rename2" /\ a.renames = 1 /\ a.removes = 1)
       /\ (a.pc = "exists" /\ ~files[Dest].exists)
            => /\ b.pc = "ret" /\ b.ret = "Io" /\ files' = files
               /\ b.renames = 1 /\ b.removes = 0
       /\ (a.pc = "remove" /\ files' = files)
            => (b.pc = "ret" /\ b.ret = "Io" /\ b.renames = 1 /\ b.removes = 1)

\* C23: within one write the rename is attempted at most twice and the
\* destination deleted at most once; the second rename follows only a first
\* rename that failed, a destination found to exist and a deletion that
\* succeeded; a failed first rename with no destination returns its error
\* with no deletion and no retry; a failed deletion returns its error with
\* no retry.
C23_RenameRetriedOnce == [][\A w \in Writers : RetryStep(w)]_vars

\* A write returned success after two renames and one deletion.
C23_Witness ==
  \E w \in Writers :
    /\ wr[w].pc = "ret" /\ wr[w].ret = "Ok"
    /\ wr[w].renames = 2 /\ wr[w].removes = 1

\* The directory of a path: all its components but the file name.
DirOf(path) == SubSeq(path, 1, Len(path) - 1)

\* What a step of caller w inside write_file_safely may do to its temporary
\* file, from its locals `a` before to `b` after the step.
TmpStep(w) ==
  LET a == wr[w]
      b == wr'[w]
  IN (b # a /\ a.pc \notin {"idle", "ret"}) =>
       /\ DirOf(a.tmp) = DirOf(Dest)
       \* the file goes away only by a rename onto the destination
       /\ (files[a.tmp].exists /\ ~files'[a.tmp].exists)
            => (b.pc = "ret" /\ b.ret = "Ok" /\ files'[Dest] = File(a.bytes))
       \* a failure after the creation
       /\ (b.pc = "ret" /\ b.ret # "Ok"
           /\ a.pc \in {"write", "sync", "exists", "remove", "rename2"})
            => files'[a.tmp].exists
       \* a failure after a rename that failed
       /\ (b.pc = "ret" /\ b.ret # "Ok" /\ a.pc \in {"exists", "remove", "rename2"})
            => files'[a.tmp] = File(a.bytes)
       /\ (b.pc = "ret" /\ b.ret = "Ok") => ~files'[a.tmp].exists

\* C24: write_file_safely never deletes its temporary file: when a write
\* fails at a step after the creation of that file (write, sync, first
\* rename, deletion of the destination, second rename) the file is still
\* there, in the directory of the destination, and after a failed rename it
\* holds the complete new bytes; after a write that succeeds it is gone.
C24_TmpFileKept == [][\A w \in Writers : TmpStep(w)]_vars

\* A write failed at its second rename and its temporary file holds the
\* complete bytes, in the directory of the destination.
C24_Witness ==
  \E w \in Writers :
    /\ wr[w].pc = "ret" /\ wr[w].ret = "Io" /\ wr[w].renames = 2
    /\ files[wr[w].tmp] = File(wr[w].bytes)
    /\ DirOf(wr[w].tmp) = DirOf(Dest) /\ wr[w].tmp # Dest

\* ------------------------------------------------ claims: the commands, III
\* The other one of create and save.
Twin(op) == IF op = "create" THEN "save" ELSE "create"

\* The locals `t` of a create or a save, read as the locals of command `op`:
\* only the operation name differs, also inside an InvalidPayload message.
AsOp(t, op) ==
  [t EXCEPT !.op = op, !.ret = IF @ = ErrPair(t.op) THEN ErrPair(op) ELSE @]

\* A step that enters create or save, and one that leaves its file write.
Enters == task.pc \in {"idle", "done"} /\ task'.n = task.n + 1
Leaves == task.pc = "writing" /\ task'.pc = "done"

\* The steps of the two commands that are written once per command (the
\* unpacking of the payload with the pairing check, and the return after the
\* write) are steps of the twin command when read under its name, and leave
\* the files and the secret store alone; between them both commands run the
\* same loop over the descriptors and the same file write.
TwinStep ==
  task'.op \in {"create", "save"} =>
    /\ Enters => /\ \E p \in Payloads :
                      AsOp(task', Twin(task'.op)) = WriteStart(Twin(task'.op), p)
                 /\ UNCHANGED <<files, keyring>>
    /\ Leaves => /\ AsOp(task', Twin(task.op))
                      = WriteResult(AsOp(task, Twin(task.op)), wr[1].ret)
                 /\ UNCHANGED <<files, keyring>>

\* Whatever one command can start with or return, the other can too (the
\* starts are looked at in the states where two commands can still follow).
TwinEnabled ==
  /\ (CanStart /\ task.n + 1 < MaxOps) =>
       \A p \in Payloads :
         /\ ENABLED (CreateBegin /\ task' = WriteStart("create", p))
         /\ ENABLED (SaveBegin /\ task' = WriteStart("save", p))
  /\ (task.pc = "writing" /\ wr[1].pc = "ret") =>
       /\ task.op = "create" => ENABLED CreateReturn
       /\ task.op = "save" => ENABLED SaveReturn

RECURSIVE NullifiedFrom(_, _, _)
NullifiedFrom(tree, entries, i) ==
  IF i > Len(entries) THEN tree
  ELSE NullifiedFrom(Nullify(tree, entries[i].dotpath).tree, entries, i + 1)

\* The value the payload asks to store: its data, or the empty mapping.
InputData(p) == IF p.data.some THEN p.data.v ELSE Obj(EmptyMap)

\* The descriptors a create/save processes: those of a paired payload.
Processed(p) == IF Paired(p) THEN p.keyring_entries.v ELSE <<>>

\* A create or a save has returned success.
Wrote == (Returned("create") \/ Returned("save")) /\ task.ret.ok

\* C26: a successful create/save returns, with withUnlock true, the value
\* as it was before any secret was extracted (the input data, or the empty
\* mapping when data is omitted) and, with withUnlock false, exactly the
\* nullified tree whose encoding is in the destination file.
C26_ReturnedValue ==
  Wrote =>
    LET locked == NullifiedFrom(InputData(task.p), Processed(task.p), 1)
    IN /\ task.p.with_unlock => task.ret.v = InputData(task.p)
       /\ ~task.p.with_unlock => task.ret.v = locked
       /\ \E nonce \in Nonces :
            files[Dest] = File(Encode(task.backend, locked, nonce))

\* A save with withUnlock true and no data has returned the empty mapping,
\* while the file holds the tree with the paths of its descriptors set to null.
C26_Witness ==
  /\ Wrote /\ task.op = "save" /\ task.p.with_unlock /\ ~task.p.data.some
  /\ Len(Processed(task.p)) = 2
  /\ task.ret.v = Obj(EmptyMap) /\ task.data # Obj(EmptyMap)

\* A create or a save that has passed the path and pairing checks with a
\* list of descriptors.
Extracting ==
  /\ task.op \in {"create", "save"}
  /\ Paired(task.p) /\ ResolvePath(task.p.name).ok

\* True when the nullify of the k-th descriptor of the payload succeeds on
\* the tree the k-1 descriptors before it have left.
NullifyOk(p, k) ==
  Nullify(NullifiedFrom(InputData(p), SubSeq(Processed(p), 1, k - 1), 1),
          Processed(p)[k].dotpath).ok

\* The j-th call of the command stored the j-th descriptor.
StoredAt(j) == task.log[j] = Ev("keyring.set", Processed(task.p)[j].id, "ok")

\* The calls made so far by a create/save, in the order of the list.
InListOrder ==
  Extracting =>
    LET E == Processed(task.p)
        L == task.log
    IN \A j \in 1..Len(L) :
         /\ L[j].call \in {"keyring.set", "fs.write"}
         \* the j-th call is for the j-th descriptor, after j-1 full turns
         /\ L[j].call = "keyring.set" =>
              /\ j <= Len(E) /\ L[j].id = E[j].id
              /\ \A i \in 1..(j - 1) : StoredAt(i) /\ NullifyOk(task.p, i)
         \* the write comes after a full turn for every descriptor
         /\ L[j].call = "fs.write" =>
              /\ j = Len(E) + 1
              /\ \A i \in 1..Len(E) : StoredAt(i) /\ NullifyOk(task.p, i)
         \* the first step that fails is the last one
         /\ (L[j].call = "keyring.set" /\ L[j].res = "err") =>
              (j = Len(L) /\ task.pc = "done" /\ task.ret = Err("Keyring"))
         /\ (j <= Len(E) /\ StoredAt(j) /\ ~NullifyOk(task.p, j)) =>
              (j = Len(L) /\ task.pc = "done" /\ task.ret = Err("Dotpath"))

\* What a step of create/save changes: the secret store by the set of the
\* next descriptor only, the files inside the file write only.
ExtractStep ==
  task'.op \in {"create", "save"} =>
    /\ keyring' # keyring =>
         /\ task.pc = "kset" /\ Len(task'.log) = Len(task.log) + 1
         /\ task'.log[Len(task'.log)]
              = Ev("keyring.set", task.entries[Len(task'.log)].id, "ok")
         /\ keyring' = KeyringStoreSet(keyring,
                         EntryKey(task.opts.v, task.entries[Len(task'.log)].id),
                         task.entries[Len(task'.log)].value)
    /\ files' # files =>
         /\ task.pc = "writing"
         /\ task.log[Len(task.log)].call = "fs.write"

\* C27: in create/save the descriptors are processed in list order, each
\* by a set in the secret store followed by the nullify of its dotpath; the
\* file write starts only after every descriptor has been processed; the
\* first step that fails ends the operation with its error, no later
\* descriptor is stored and the file is not written.
C27_ListOrder == []InListOrder /\ [][ExtractStep]_vars

\* The nullify of the second descriptor failed: both values are stored, the
\* operation ended with the dotpath error and the file was never written.
C27_Witness ==
  /\ Returned("create") /\ Extracting /\ task.ret = Err("Dotpath")
  /\ Len(task.log) = 2 /\ StoredAt(1) /\ StoredAt(2)
  /\ Len(Processed(task.p)) = 2
  /\ files[Dest] = initial /\ wr[1].calls = 0

\* The secret store before the first command: empty, or with the secrets an
\* earlier run left next to its file.
InitialKeyring ==
  IF initial.exists
  THEN [EmptyKeyring EXCEPT ![EntryKey(AppOpts, K1)] = Entry(<<"o", "l", "d">>),
                            ![EntryKey(AppOpts, K2)] = Entry(<<"7">>)]
  ELSE EmptyKeyring

\* The secret store `kr` after the values of the first m descriptors of
\* `entries` were stored in it, from the i-th on.
RECURSIVE StoredFrom(_, _, _, _, _)
StoredFrom(kr, opts, entries, i, m) ==
  IF i > m THEN kr
  ELSE StoredFrom(KeyringStoreSet(kr, EntryKey(opts, entries[i].id), entries[i].value),
                  opts, entries, i + 1, m)

\* The first command of the run, a create or a save, has failed after its
\* pairing check.
FailedAfterPairing ==
  /\ Extracting /\ task.n = 1
  /\ task.pc = "done" /\ ~task.ret.ok

\* The number of descriptors whose value the failed command has stored: k-1
\* when the set of descriptor k failed, k when its nullify failed, all of them
\* when the file write failed.
StoredCount ==
  CASE task.ret = Err("Keyring") -> Len(task.log) - 1
    [] task.ret = Err("Dotpath") -> Len(task.log)
    [] OTHER -> Len(Processed(task.p))

\* The values the failed command stored are still in the secret store.
SecretsRemain ==
  FailedAfterPairing =>
    keyring = StoredFrom(InitialKeyring, task.p.keyring_options.v,
                         Processed(task.p), 1, StoredCount)

\* C28: create/save do not roll the secret store back: when the operation
\* fails after the pairing check (the set of descriptor k fails, the nullify
\* of descriptor k fails, or the file write fails) the values stored so far
\* remain in the secret store while the destination file keeps its prior
\* content.
C28_NoRollback ==
  /\ SecretsRemain
  /\ FailedAfterPairing => files[Dest] = initial

\* No call of the command in progress went to the file system.
NoFsCall(log) ==
  \A k \in 1..Len(log) : log[k].call \notin {"fs.read", "fs.write", "fs.remove"}

\* The calls a load or an unlock has made so far.
ReadOnlyCalls ==
  /\ task.op = "unlock" => NoFsCall(task.log)
  /\ (task.op = "load" /\ ~task.p.with_unlock) => NoKeyringCall(task.log)
  /\ task.op \in {"load", "unlock"} =>
       \A k \in 1..Len(task.log) : task.log[k].call \in {"fs.read", "keyring.get"}

\* A step of load or unlock leaves every file and every secret as it was.
ReadOnlyStep ==
  task'.op \in {"load", "unlock"} => (files' = files /\ keyring' = keyring)

\* C29: load and unlock are read-only: in every outcome, success or error,
\* they leave the content of the files and of the secret store unchanged;
\* unlock makes no file system access, and load with withUnlock false makes
\* no call to the secret store.
C29_ReadOnly == []ReadOnlyCalls /\ [][ReadOnlyStep]_vars

\* A load with withUnlock true has read the file and two secrets, and files
\* and secret store are as they were before it.
C29_Witness ==
  /\ Returned("load") /\ task.ret.ok /\ task.p.with_unlock /\ task.n = 1
  /\ Len(task.log) = 3 /\ task.log[1].call = "fs.read"
  /\ task.log[3] = Ev("keyring.get", task.entries[2].id, "ok")
  /\ files[Dest] = initial /\ keyring = InitialKeyring

\* -------------------------------------------------- claims: the dotpaths, II
\* C30: set is all-or-nothing on the tree: whenever set or nullify returns
\* a Dotpath error the tree is exactly as it was before the call, with no
\* intermediate mapping created and no key overwritten, for every tree and
\* every path.
C30_FailureKeepsTree ==
  (SetCalled /\ ~task.ret.ok) => task.tree = ghost.root

\* set of "a.b.a" on {a: {b: "s"}} failed at the string under a.b, after it
\* went through a, and the tree is as before.
C30_Witness ==
  /\ task.op = "set" /\ task.path = <<"a", ".", "b", ".", "a">>
  /\ ghost.root = Obj(<<"a">> :> Obj(<<"b">> :> Str(<<"s">>)))
  /\ task.ret = Err("Dotpath")
  /\ task.tree = ghost.root

\* ------------------------------------------- the addresses of the secrets
\* Calls of keyring_store::set and keyring_store::delete, for accounts and
\* ids that may hold the separator.
UserStrings == StringsOver({"a", "/"}, MaxUserLen)
StoreOptions == [service : {<<"s">>, <<"t">>}, account : UserStrings]
StoreTriples == [opts : StoreOptions, id : UserStrings]
StoreKeys == {EntryKey(t.opts, t.id) : t \in StoreTriples}
StoreValues == {<<"x">>, <<"y">>}

\* ghost.held is, for every triple (service, account, id), what the calls
\* made for that triple have left there: nothing, or the value last set.
InitStore ==
  /\ initial = NoFile
  /\ files = [f \in FileNames |-> NoFile]
  /\ called = {}
  /\ wr = [w \in Writers |-> IdleWriter]
  /\ keyring = [k \in StoreKeys |-> NoEntry]
  /\ conf = [fmt |-> JsonFormat, schema |-> <<>>]
  /\ task = [op |-> "none", n |-> 0]
  /\ ghost = [held |-> [t \in StoreTriples |-> None]]

\* keyring_store.rs:21-26  set(opts, id, value); Entry::new or set_password
\* may fail, and then nothing is stored
StoreSet ==
  /\ task.n < MaxStores
  /\ \E t \in StoreTriples, value \in StoreValues :
       \/ /\ keyring' = KeyringStoreSet(keyring, EntryKey(t.opts, t.id), value)
          /\ ghost' = [ghost EXCEPT !.held[t] = Some(value)]
          /\ task' = [op |-> "set", n |-> task.n + 1, opts |-> t.opts, id |-> t.id,
                      ret |-> Ok(Unit)]
       \/ /\ UNCHANGED <<keyring, ghost>>
          /\ task' = [op |-> "set", n |-> task.n + 1, opts |-> t.opts, id |-> t.id,
                      ret |-> Err("Keyring")]
  /\ UNCHANGED <<files, initial, called, wr, conf>>

\* keyring_store.rs:39-47  delete(opts, id)
StoreDelete ==
  /\ task.n < MaxStores
  /\ \E t \in StoreTriples :
       \/ /\ keyring' = KeyringStoreDelete(keyring, EntryKey(t.opts, t.id)).store
          /\ ghost' = [ghost EXCEPT !.held[t] = None]
          /\ task' = [op |-> "delete", n |-> task.n + 1, opts |-> t.opts, id |-> t.id,
                      ret |-> Ok(Unit)]
       \/ /\ UNCHANGED <<keyring, ghost>>
          /\ task' = [op |-> "delete", n |-> task.n + 1, opts |-> t.opts, id |-> t.id,
                      ret |-> Err("Keyring")]
  /\ UNCHANGED <<files, initial, called, wr, conf>>

NextStore == StoreSet \/ StoreDelete

SpecStore == InitStore /\ [][NextStore]_vars

\* ------------------------------------------------ claims: the secret store
\* C31: the addresses of the secret store are injective: two different
\* triples (service, account, id) have different keys (service, user), so a
\* set or a delete for one triple never overwrites or removes the secret of
\* another, for all accounts and ids, also those that hold "/".
\* Checked after every call: each triple still holds the value last set for
\* it, whatever was set or deleted for the other triples since.
C31_AddressesInjective ==
  task.op \in {"set", "delete"} =>
    \A t \in StoreTriples :
      ghost.held[t].some
        => keyring[EntryKey(t.opts, t.id)] = Entry(ghost.held[t].v)

\* ----------------------------------------------------- the same save twice
\* The caller sends the payload of the save that has just succeeded once
\* more: commands.rs:273-288.  The locals of the second run carry, as
\* history, the file and the secret store the first run left.
SaveAgain ==
  /\ CanStart
  /\ task.op = "save" /\ task.pc = "done" /\ task.ret.ok
  /\ task' = [once |-> [file |-> files[Dest], keyring |-> keyring]]
               @@ WriteStart("save", task.p)
  /\ ghost' = NoHistory
  /\ UNCHANGED <<files, initial, called, wr, keyring, conf>>

\* Saves, each possibly sent twice, and loads.
NextTwice ==
  \/ SaveBegin \/ SaveAgain
  \/ KeyringWrite \/ BackendWrite \/ BackendWriteStep \/ SaveReturn
  \/ LoadBegin \/ LoadRead \/ KeyringRead

SpecTwice == Init /\ [][NextTwice]_vars

\* commands.rs:179-191  apply_keyring_reads from the i-th descriptor on, with
\* a secret store that works
RECURSIVE ReadsFrom(_, _, _, _, _)
ReadsFrom(data, entries, opts, store, i) ==
  IF i > Len(entries) THEN Ok(data)
  ELSE LET got == KeyringStoreGet(store, EntryKey(opts, entries[i].id))
       IN IF ~got.ok THEN Err(got.kind)
          ELSE LET parsed == JsonFromStr(got.v)
                   val == IF parsed.some THEN parsed.v ELSE Str(got.v)
                   r == DotSet(data, entries[i].dotpath, val)
               IN IF ~r.ok THEN Err("Dotpath")
                  ELSE ReadsFrom(r.tree, entries, opts, store, i + 1)

\* commands.rs:250-266  load of payload p from the file `file` and the secret
\* store `store`, when no call fails for a reason outside them
LoadOf(file, store, p) ==
  LET path == ResolvePath(p.name)
      d == Decode(BackendFor(p.fmt.format, p.fmt.encryption_key), file.bytes)
      pair == KeyringPair("load", p.keyring_entries, p.keyring_options)
  IN IF ~path.ok THEN path
     ELSE IF ~file.exists THEN Err("Io")
     ELSE IF ~d.ok THEN Err(d.kind)
     ELSE IF ~p.with_unlock THEN Ok(d.v)
     ELSE IF ~pair.ok THEN pair
     ELSE IF pair.v.some
          THEN ReadsFrom(d.v, pair.v.v.entries, pair.v.v.opts, store, 1)
          ELSE Ok(d.v)

\* ------------------------------------------------- claims: the commands, IV
\* The second of two successive saves of one payload has succeeded.
SavedTwice ==
  /\ Returned("save") /\ task.ret.ok
  /\ "once" \in DOMAIN task

\* The value a file decodes to, for the format of this run.
Decoded(file) ==
  IF file.exists
  THEN Decode(BackendFor(conf.fmt.format, conf.fmt.encryption_key), file.bytes)
  ELSE [ok |-> FALSE, kind |-> "Io"]

\* C32: save is idempotent on what it leaves behind: after the same payload
\* was saved with success twice in a row, the file decodes to the same value
\* and the secret store holds the same content as after the first of the two
\* saves, and a load returns after the second what it returns after the
\* first (a load that meets no failure returns what LoadOf gives).
C32_SaveIdempotent ==
  /\ SavedTwice =>
       /\ Decoded(files[Dest]) = Decoded(task.once.file)
       /\ Decoded(files[Dest]).ok
       /\ keyring = task.once.keyring
       /\ \A q \in Payloads :
            LoadOf(files[Dest], keyring, q)
              = LoadOf(task.once.file, task.once.keyring, q)
  /\ (Returned("load") /\ ~task.faulted) =>
       task.ret = LoadOf(files[Dest], keyring, task.p)

\* The second save of a payload with two descriptors of one id has
\* succeeded over the file and the secrets the first one left.
C32_Witness ==
  /\ SavedTwice /\ task.n = 2
  /\ Paired(task.p) /\ task.p.keyring_entries.v = <<D1, D3>>
  /\ initial.exists /\ files[Dest] # initial
  /\ keyring = task.once.keyring
  /\ keyring[EntryKey(AppOpts, K1)] = Entry(D3.value)

\* --------------------------------------------------- claims: the writer, III
\* The temporary file of caller w holds the complete new bytes, synced.
TmpComplete(w) == files[wr[w].tmp] = File(wr[w].bytes) /\ wr[w].synced

\* A complete copy is there for the write of caller w: the destination as
\* it was at the call, the destination with the new bytes, or the temporary
\* file, complete and synced.
CopyKept(w) ==
  \/ files[Dest] = wr[w].prior
  \/ files[Dest] = File(wr[w].bytes)
  \/ TmpComplete(w)

\* A step of caller w that deletes the destination is taken with the
\* temporary file complete and synced.
DeleteStep(w) ==
  (wr'[w] # wr[w] /\ files[Dest].exists /\ ~files'[Dest].exists)
    => (wr[w].pc = "remove" /\ TmpComplete(w) /\ files'[wr[w].tmp] = files[wr[w].tmp])

\* C33: no write destroys the only complete copy of the data: in every
\* state from the call of write_file_safely on, with no other caller of the
\* path, the destination holds its complete prior content, or the complete
\* new bytes, or the temporary file holds the complete new bytes, synced;
\* and the destination is deleted only after the temporary file was written
\* in full and synced, by whichever caller.
C33_CopyAlwaysKept ==
  /\ [](\A w \in Writers : (wr[w].pc # "idle" /\ OnlyCaller(w)) => CopyKept(w))
  /\ [][\A w \in Writers : DeleteStep(w)]_vars

\* The destination was deleted and the second rename has not been made: the
\* only complete copy is the temporary file.
C33_Witness ==
  \E w \in Writers :
    /\ OnlyCaller(w) /\ wr[w].pc = "rename2"
    /\ wr[w].prior.exists /\ ~files[Dest].exists
    /\ TmpComplete(w)

====
